---- MODULE Spec2Model ----
(***************************************************************************)
(* Model of the session-lifecycle engine of the Rabbithole tracker         *)
(* extension: background/session-manager.js (addPageVisitToSession) with   *)
(* the scorer of background/rabbithole-detector.js, run as concurrent      *)
(* asynchronous calls over the single 'currentSession' record of           *)
(* chrome.storage.session; and of its limit engine,                        *)
(* background/blocker-engine.js (checkTimeLimits), run as concurrent       *)
(* asynchronous calls over the settings and the time data of               *)
(* chrome.storage.local.                                                   *)
(*                                                                         *)
(* JavaScript strings on which the code works character by character      *)
(* (URLs, topic sentences, keywords, model replies) are sequences of       *)
(* one-character strings.  An optional value (undefined or a value) is a   *)
(* sequence of length 0 or 1.                                              *)
(***************************************************************************)
EXTENDS Integers, Sequences, FiniteSets, TLC

\* ------------------------------------------------------------------ bounds
\* number of addPageVisitToSession calls in one behaviour
MaxCalls == 2
\* number of calls suspended at the same time
MaxInFlight == 2
\* number of times the wall clock changes in one behaviour
MaxTicks == 2
\* number of scoreSession calls made on their own in one behaviour
MaxScored == 2
\* number of checkTimeLimits calls in one behaviour
MaxChecks == 2

\* --------------------------------------------------------- optional values
Nothing == <<>>
Some(v) == <<v>>
IsSome(o) == Len(o) = 1
Get(o) == o[1]

\* ------------------------------------------------------------- characters
UpperChars ==
  <<"A","B","C","D","E","F","G","H","I","J","K","L","M",
    "N","O","P","Q","R","S","T","U","V","W","X","Y","Z">>
LowerChars ==
  <<"a","b","c","d","e","f","g","h","i","j","k","l","m",
    "n","o","p","q","r","s","t","u","v","w","x","y","z">>
DigitChars == <<"0","1","2","3","4","5","6","7","8","9">>

\* String.prototype.toLowerCase, one character
ToLowerChar(c) ==
  IF \E i \in 1..26 : UpperChars[i] = c
  THEN LowerChars[CHOOSE i \in 1..26 : UpperChars[i] = c]
  ELSE c

\* String.prototype.toLowerCase
ToLowerCase(s) == [i \in 1..Len(s) |-> ToLowerChar(s[i])]

\* the characters \s matches (those the inputs can contain)
WhiteSpace == {" ", "\t", "\n"}

IsDigit(c) == \E i \in 1..10 : DigitChars[i] = c
IsAlpha(c) == \E i \in 1..26 : UpperChars[i] = c \/ LowerChars[i] = c

\* s.replace(/[set]/g, ""): s without the characters of set
RECURSIVE StripChars(_, _)
StripChars(s, set) ==
  IF s = <<>> THEN <<>>
  ELSE IF Head(s) \in set THEN StripChars(Tail(s), set)
       ELSE <<Head(s)>> \o StripChars(Tail(s), set)

\* String.prototype.trim
RECURSIVE TrimStart(_)
TrimStart(s) ==
  IF s # <<>> /\ Head(s) \in WhiteSpace THEN TrimStart(Tail(s)) ELSE s
RECURSIVE TrimEnd(_)
TrimEnd(s) ==
  IF s # <<>> /\ s[Len(s)] \in WhiteSpace
  THEN TrimEnd(SubSeq(s, 1, Len(s) - 1)) ELSE s
Trim(s) == TrimEnd(TrimStart(s))

\* Array.prototype.includes
Includes(seq, v) == \E i \in 1..Len(seq) : seq[i] = v

\* index of the first element of s from position i on that is in set,
\* Len(s) + 1 when there is none
RECURSIVE FindFrom(_, _, _)
FindFrom(s, i, set) ==
  IF i > Len(s) THEN Len(s) + 1
  ELSE IF s[i] \in set THEN i ELSE FindFrom(s, i + 1, set)

\* ------------------------------------------------------- new URL(u).hostname
\* The URL parser of the platform, for the inputs of the model: surrounding
\* white space is dropped; a scheme (a letter, then letters, digits, + - .)
\* ends at the first ":"; for http and https the slashes after it are
\* skipped, the authority runs to the next / \ ? # or the end, the userinfo
\* before the last "@" and the port after ":" are dropped, and the host is
\* lower-cased; an input without a scheme, or an http(s) URL with an empty
\* host, a forbidden host character or a non-numeric port, throws.

SchemeChars(c) == IsAlpha(c) \/ IsDigit(c) \/ c \in {"+", "-", "."}

\* length of the scheme of s, 0 when s does not start with "scheme:"
RECURSIVE SchemeLen(_, _)
SchemeLen(s, i) ==
  IF i > Len(s) THEN 0
  ELSE IF s[i] = ":" THEN i - 1
  ELSE IF SchemeChars(s[i]) THEN SchemeLen(s, i + 1)
  ELSE 0

\* position of the last "@" of s, 0 when there is none
RECURSIVE LastAt(_, _)
LastAt(s, i) ==
  IF i = 0 THEN 0 ELSE IF s[i] = "@" THEN i ELSE LastAt(s, i - 1)

\* first position from i on that is not a slash or backslash
RECURSIVE SkipSlashes(_, _)
SkipSlashes(s, i) ==
  IF i <= Len(s) /\ s[i] \in {"/", "\\"} THEN SkipSlashes(s, i + 1) ELSE i

ForbiddenHostChars == {" ", "\t", "\n", "<", ">", "[", "]", "^", "|", "%"}

AllDigits(s) == \A i \in 1..Len(s) : IsDigit(s[i])

\* host and port of an authority without userinfo, or Nothing (throws)
HostOfAuthority(a) ==
  LET colon == FindFrom(a, 1, {":"})
      host  == SubSeq(a, 1, colon - 1)
      port  == SubSeq(a, colon + 1, Len(a))
  IN  IF host = <<>> THEN Nothing
      ELSE IF \E i \in 1..Len(host) : host[i] \in ForbiddenHostChars
           THEN Nothing
      ELSE IF ~AllDigits(port) THEN Nothing
      ELSE Some(ToLowerCase(host))

\* new URL(u).hostname: Some(hostname), or Nothing when the constructor throws
Hostname(u) ==
  LET s  == Trim(u)
      n  == IF s # <<>> /\ IsAlpha(s[1]) THEN SchemeLen(s, 1) ELSE 0
      scheme == ToLowerCase(SubSeq(s, 1, n))
      special == scheme \in {<<"h","t","t","p">>, <<"h","t","t","p","s">>}
      start == IF special THEN SkipSlashes(s, n + 2) ELSE n + 4
      stop  == FindFrom(s, start,
                 IF special THEN {"/", "\\", "?", "#"} ELSE {"/", "?", "#"})
      auth  == SubSeq(s, start, stop - 1)
      at    == LastAt(auth, Len(auth))
      noUser == SubSeq(auth, at + 1, Len(auth))
  IN  IF n = 0 THEN Nothing
      ELSE IF special THEN HostOfAuthority(noUser)
      ELSE IF SubSeq(s, n + 2, n + 3) = <<"/", "/">>
           THEN Some(SubSeq(noUser, 1, FindFrom(noUser, 1, {":"}) - 1))
      ELSE Some(<<>>)

\* -------------------------------------------------------- program constants
\* the inactivity, in milliseconds, that ends a session
SESSION_GAP_THRESHOLD == 30 * 60 * 1000

stopWords ==
  { <<"a">>, <<"a","n">>, <<"t","h","e">>, <<"i","n">>, <<"o","n">>,
    <<"o","f">>, <<"f","o","r">>, <<"t","o">>, <<"a","n","d">>, <<"i","s">>,
    <<"w","a","s">>, <<"a","s">>, <<"i","t">> }

\* the grave accent character (ASCII 96), which a string of this module
\* cannot hold
Grave == "GRAVE"

\* the character class of the keyword clean-up
KeywordPunctuation ==
  { ".", ",", "/", "#", "!", "$", "%", "^", "&", "*", ";", ":", "{", "}",
    "=", "-", "_", Grave, "~", "(", ")" }

\* the character class removed from the reply of the language model
ReplyPunctuation == { "#", "*", "_", "\"" }

Unknown == <<"U","n","k","n","o","w","n">>

\* ------------------------------------------------------- keyword extraction
\* topicSentence.split(/\s+/): the pieces between runs of white space, with
\* an empty piece before a leading and after a trailing run
RECURSIVE SplitWhiteSpace(_)
SplitWhiteSpace(s) ==
  LET p == FindFrom(s, 1, WhiteSpace)
      RECURSIVE SkipWs(_)
      SkipWs(i) == IF i <= Len(s) /\ s[i] \in WhiteSpace THEN SkipWs(i + 1) ELSE i
  IN  IF p > Len(s) THEN <<s>>
      ELSE <<SubSeq(s, 1, p - 1)>> \o SplitWhiteSpace(SubSeq(s, SkipWs(p), Len(s)))

\* keyword.replace(/[...]/g, "").toLowerCase(), the class being
\* KeywordPunctuation
CleanKeyword(keyword) == ToLowerCase(StripChars(keyword, KeywordPunctuation))

\* the guard of the count: cleanKeyword.length > 3 && !stopWords.has(cleanKeyword)
KeepKeyword(cleanKeyword) == Len(cleanKeyword) > 3 /\ cleanKeyword \notin stopWords

\* position of c in DigitChars minus one
DigitValue(c) == (CHOOSE i \in 1..10 : DigitChars[i] = c) - 1

\* a < b for digit strings of equal length
RECURSIVE DigitsLess(_, _)
DigitsLess(a, b) ==
  IF a = <<>> THEN FALSE
  ELSE IF DigitValue(Head(a)) # DigitValue(Head(b))
       THEN DigitValue(Head(a)) < DigitValue(Head(b))
       ELSE DigitsLess(Tail(a), Tail(b))

\* numeric a < b for canonical digit strings
IndexLess(a, b) == Len(a) < Len(b) \/ (Len(a) = Len(b) /\ DigitsLess(a, b))

\* a property key that the object orders as an integer index: a canonical
\* decimal numeral below 2^32 - 1
IsArrayIndex(k) ==
  /\ k # <<>>
  /\ AllDigits(k)
  /\ (Len(k) > 1 => k[1] # "0")
  /\ IndexLess(k, <<"4","2","9","4","9","6","7","2","9","5">>)

\* the lower-case property names every plain object inherits from
\* Object.prototype
ConstructorName == <<"c","o","n","s","t","r","u","c","t","o","r">>
InheritedKeys == {ConstructorName, <<"_","_","p","r","o","t","o","_","_">>}

\* String(Object), what the inherited constructor becomes when 1 is added
ObjectSource ==
  <<"f","u","n","c","t","i","o","n"," ","O","b","j","e","c","t","(",")"," ",
    "{"," ","[","n","a","t","i","v","e"," ","c","o","d","e","]"," ","}">>

\* keywordCounts is an object: its entries in the order Object.entries
\* gives them (integer index keys ascending, then the other keys in the
\* order of their first assignment), as a sequence of [k, n] where the value
\* is the number n, or of [k, s] where it is the string s
HasKey(counts, k) == \E i \in 1..Len(counts) : counts[i].k = k

\* value + 1
PlusOne(entry) ==
  IF "n" \in DOMAIN entry THEN [k |-> entry.k, n |-> entry.n + 1]
  ELSE [k |-> entry.k, s |-> entry.s \o <<"1">>]

\* keywordCounts[k] = (keywordCounts[k] || 0) + 1, where keywordCounts[k]
\* is the inherited member when k is no own property but an inherited name
IncrementCount(counts, k) ==
  IF HasKey(counts, k)
  THEN [i \in 1..Len(counts) |->
          IF counts[i].k = k THEN PlusOne(counts[i]) ELSE counts[i]]
  ELSE IF k \in InheritedKeys
  THEN Append(counts, [k |-> k, s |-> ObjectSource \o <<"1">>])
  ELSE IF IsArrayIndex(k)
  THEN LET before == Cardinality({i \in 1..Len(counts) :
                        IsArrayIndex(counts[i].k) /\ IndexLess(counts[i].k, k)})
       IN  SubSeq(counts, 1, before) \o <<[k |-> k, n |-> 1]>>
             \o SubSeq(counts, before + 1, Len(counts))
  ELSE Append(counts, [k |-> k, n |-> 1])

\* the keywords.forEach loop over the pieces of one sentence
RECURSIVE CountKeywords(_, _)
CountKeywords(counts, keywords) ==
  IF keywords = <<>> THEN counts
  ELSE LET cleanKeyword == CleanKeyword(Head(keywords))
       IN  CountKeywords(
             IF KeepKeyword(cleanKeyword) THEN IncrementCount(counts, cleanKeyword)
             ELSE counts,
             Tail(keywords))

\* the page.aiTopics.forEach loop over the sentences of one page
RECURSIVE CountSentences(_, _)
CountSentences(counts, aiTopics) ==
  IF aiTopics = <<>> THEN counts
  ELSE CountSentences(CountKeywords(counts, SplitWhiteSpace(Head(aiTopics))),
                      Tail(aiTopics))

\* the session.pages.forEach loop: pages without aiTopics are skipped
RECURSIVE CountPages(_, _)
CountPages(counts, pages) ==
  IF pages = <<>> THEN counts
  ELSE CountPages(
         IF IsSome(Head(pages).aiTopics)
         THEN CountSentences(counts, Get(Head(pages).aiTopics))
         ELSE counts,
         Tail(pages))

\* keywordCounts of a session
KeywordCounts(pages) == CountPages(<<>>, pages)

\* entries.sort(([, a], [, b]) => b - a): stable, descending by count
RECURSIVE InsertByCount(_, _)
InsertByCount(sorted, e) ==
  IF sorted = <<>> THEN <<e>>
  ELSE IF Head(sorted).n >= e.n
       THEN <<Head(sorted)>> \o InsertByCount(Tail(sorted), e)
       ELSE <<e>> \o sorted
RECURSIVE SortByCount(_)
SortByCount(entries) ==
  IF entries = <<>> THEN <<>>
  ELSE InsertByCount(SortByCount(SubSeq(entries, 1, Len(entries) - 1)),
                     entries[Len(entries)])

\* Object.entries(keywordCounts).sort(...).slice(0, 5).map(([keyword]) => keyword)
TopKeywords(counts) ==
  LET sorted == SortByCount(counts)
      top    == SubSeq(sorted, 1, IF Len(sorted) < 5 THEN Len(sorted) ELSE 5)
  IN  [i \in 1..Len(top) |-> top[i].k]

\* ------------------------------------------------------------- scoreSession
\* session.allTopics ? Object.keys(session.allTopics).length : 0
UniqueTopics(session) ==
  IF "allTopics" \in DOMAIN session THEN Len(session.allTopics) ELSE 0

\* ------------------------------------------------- the numbers of the scorer
\* A JavaScript number is an IEEE 754 double.  The doubles of the scorer are
\* below Base^IntDigits in magnitude and are multiples of Base^-FracDigits,
\* so a double is kept as a sign and a magnitude in fixed point: mag[i] is
\* the digit in base Base of weight Base^(i - 1 - FracDigits).
DigitBits == 12
Base == 4096
FracDigits == 6
IntDigits == 2
NDigits == FracDigits + IntDigits
\* the significant binary digits of a double
Precision == 53

\* the magnitudes and the doubles of the scorer
Magnitudes == [1..NDigits -> 0..(Base - 1)]
Doubles == [neg : BOOLEAN, mag : Magnitudes]

Pow2[n \in Nat] == IF n = 0 THEN 1 ELSE 2 * Pow2[n - 1]

ZeroBits == [i \in 1..NDigits |-> 0]

\* the magnitude of the integer n, 0 <= n < Base^IntDigits
IntegerBits[n \in Nat] ==
  [i \in 1..NDigits |->
     IF i = FracDigits + 1 THEN n % Base
     ELSE IF i = FracDigits + 2 THEN n \div Base
     ELSE 0]

\* the integer part of a magnitude
IntegerPart[x \in Magnitudes] == x[FracDigits + 1] + Base * x[FracDigits + 2]

\* x + y, exact
AddFrom[x \in Magnitudes, y \in Magnitudes, i \in 1..(NDigits + 1), carry \in Nat] ==
  IF i > NDigits THEN <<>>
  ELSE <<(x[i] + y[i] + carry) % Base>>
         \o AddFrom[x, y, i + 1, (x[i] + y[i] + carry) \div Base]
AddBits[x \in Magnitudes, y \in Magnitudes] == AddFrom[x, y, 1, 0]

\* x - y for x >= y, exact
SubFrom[x \in Magnitudes, y \in Magnitudes, i \in 1..(NDigits + 1), borrow \in Nat] ==
  IF i > NDigits THEN <<>>
  ELSE <<(x[i] - y[i] - borrow + Base) % Base>>
         \o SubFrom[x, y, i + 1, IF x[i] - y[i] - borrow < 0 THEN 1 ELSE 0]
SubBits[x \in Magnitudes, y \in Magnitudes] == SubFrom[x, y, 1, 0]

\* x < y
LessBits[x \in Magnitudes, y \in Magnitudes] ==
  \E i \in 1..NDigits : x[i] < y[i] /\ \A j \in (i + 1)..NDigits : x[j] = y[j]

\* n * x for an integer 0 <= n < Base, exact
TimesFrom[n \in Nat, x \in Magnitudes, i \in 1..(NDigits + 1), carry \in Nat] ==
  IF i > NDigits THEN <<>>
  ELSE <<(n * x[i] + carry) % Base>>
         \o TimesFrom[n, x, i + 1, (n * x[i] + carry) \div Base]
TimesBits[n \in Nat, x \in Magnitudes] == TimesFrom[n, x, 1, 0]

\* x / 2, exact when the last binary digit of x is 0
Halved[x \in Magnitudes] ==
  [i \in 1..NDigits |->
     x[i] \div 2 + (IF i < NDigits THEN (x[i + 1] % 2) * (Base \div 2) ELSE 0)]

\* the number of binary digits of v, 0 for 0
BitLength[v \in Nat] == IF v = 0 THEN 0 ELSE 1 + BitLength[v \div 2]

\* position of the leading binary digit of x counted from the last one,
\* 0 for zero
TopBit[x \in Magnitudes] ==
  IF x = ZeroBits THEN 0
  ELSE LET i == CHOOSE i \in 1..NDigits :
                  x[i] # 0 /\ \A j \in (i + 1)..NDigits : x[j] = 0
       IN  (i - 1) * DigitBits + BitLength[x[i]]

\* the binary digit of x at position p
BitAt[x \in Magnitudes, p \in Nat] ==
  (x[(p - 1) \div DigitBits + 1] \div Pow2[(p - 1) % DigitBits]) % 2

\* x with the binary digits below position p cleared
ClearedBelow[x \in Magnitudes, p \in Nat] ==
  LET d == (p - 1) \div DigitBits + 1
      unit == Pow2[(p - 1) % DigitBits]
  IN  [i \in 1..NDigits |->
         IF i > d THEN x[i] ELSE IF i = d THEN (x[i] \div unit) * unit ELSE 0]

\* the magnitude with the single binary digit at position p
UnitAt[p \in Nat] ==
  [i \in 1..NDigits |->
     IF i = (p - 1) \div DigitBits + 1 THEN Pow2[(p - 1) % DigitBits] ELSE 0]

\* the double nearest to x: Precision significant binary digits, a tie to
\* the even last digit
Nearest[x \in Magnitudes] ==
  LET last == TopBit[x] - (Precision - 1)
  IN  IF last <= 1 THEN x
      ELSE LET kept == ClearedBelow[x, last]
               half == BitAt[x, last - 1] = 1
               rest == x # ClearedBelow[x, last - 1]
           IN  IF half /\ (rest \/ BitAt[x, last] = 1)
               THEN AddBits[kept, UnitAt[last]]
               ELSE kept

\* the digits of weight Base^-k down to Base^-FracDigits of r / d, for
\* r < d; the last digit is made odd when digits remain after it, which
\* Nearest needs to tell a tie
FractionDigits[r \in Nat, d \in Nat, k \in 1..FracDigits] ==
  LET digit == (Base * r) \div d
      left  == (Base * r) % d
  IN  IF k = FracDigits
      THEN << IF left # 0 /\ digit % 2 = 0 THEN digit + 1 ELSE digit >>
      ELSE <<digit>> \o FractionDigits[left, d, k + 1]

\* n / d for integers n >= 0 and d > 0
QuotientBits[n \in Nat, d \in Nat \ {0}] ==
  LET fraction == FractionDigits[n % d, d, 1]
      whole == IntegerBits[n \div d]
  IN  [i \in 1..NDigits |->
         IF i > FracDigits THEN whole[i]
         ELSE fraction[FracDigits + 1 - i]]

\* the double of the integer n
Number[n \in Int] ==
  [neg |-> n < 0, mag |-> IntegerBits[IF n < 0 THEN 0 - n ELSE n]]

\* n / d in doubles, for integers n and d > 0; also the double a decimal
\* literal n/d denotes
Divide[n \in Int, d \in Nat \ {0}] ==
  [neg |-> n < 0, mag |-> Nearest[QuotientBits[IF n < 0 THEN 0 - n ELSE n, d]]]

\* the literals 1.5 and 0.2 of the scorer
OneAndAHalf == Divide[3, 2]
Fifth == Divide[1, 5]

\* n * x in doubles, for an integer n >= 0
Times[n \in Nat, x \in Doubles] ==
  [neg |-> x.neg, mag |-> Nearest[TimesBits[n, x.mag]]]

\* x * 0.5 in doubles
TimesHalf[x \in Doubles] == [neg |-> x.neg, mag |-> Halved[x.mag]]

\* x + y in doubles
Plus[x \in Doubles, y \in Doubles] ==
  IF x.neg = y.neg
  THEN [neg |-> x.neg, mag |-> Nearest[AddBits[x.mag, y.mag]]]
  ELSE IF LessBits[x.mag, y.mag]
  THEN [neg |-> y.neg, mag |-> Nearest[SubBits[y.mag, x.mag]]]
  ELSE [neg |-> x.neg /\ x.mag # y.mag, mag |-> Nearest[SubBits[x.mag, y.mag]]]

\* x > n for an integer n >= 0
GreaterThan[x \in Doubles, n \in Nat] == ~x.neg /\ LessBits[IntegerBits[n], x.mag]

\* parseFloat(x.toFixed(2)) in hundredths: toFixed takes the integer n for
\* which n / 100 is nearest to the magnitude of x, the larger of two
\* such, and keeps the sign
ToFixed2[x \in Doubles] ==
  LET n == IntegerPart[AddBits[TimesBits[200, x.mag], IntegerBits[1]]] \div 2
  IN  IF x.neg THEN 0 - n ELSE n

\* factor 4: if (uniqueTopics > 1) score += uniqueTopics * 2
AddTopicDiversity[score \in Doubles, uniqueTopics \in Nat] ==
  IF uniqueTopics > 1 THEN Plus[score, Times[uniqueTopics, Number[2]]]
  ELSE score

\* Score with the duration taken in seconds
ScoreBySeconds(session) ==
  LET durationInMinutes == Divide[session.lastActivity - session.startTime, 1000]
      domainCount  == Len(session.domains)
      pageCount    == Len(session.pages)
      uniqueTopics == UniqueTopics(session)
  IN  AddTopicDiversity[
        Plus[Plus[Plus[Number[0], TimesHalf[durationInMinutes]],
                  Times[domainCount, OneAndAHalf]],
             Times[pageCount, Fifth]],
        uniqueTopics]

\* Score with the topic factor added whatever the number of topics
ScoreCountingEveryTopic(session) ==
  LET durationInMinutes == Divide[session.lastActivity - session.startTime, 60000]
      domainCount  == Len(session.domains)
      pageCount    == Len(session.pages)
      uniqueTopics == UniqueTopics(session)
  IN  Plus[Plus[Plus[Plus[Number[0], TimesHalf[durationInMinutes]],
                     Times[domainCount, OneAndAHalf]],
                Times[pageCount, Fifth]],
           Times[uniqueTopics, Number[2]]]

\* the variable score after the four factors, each added in its turn to the
\* score so far: score starts at 0, then += durationInMinutes * 0.5,
\* += domainCount * 1.5, += pageCount * 0.2, then factor 4
Score(session) ==
  LET durationInMinutes == Divide[session.lastActivity - session.startTime, 60000]
      domainCount  == Len(session.domains)
      pageCount    == Len(session.pages)
      uniqueTopics == UniqueTopics(session)
  IN  AddTopicDiversity[
        Plus[Plus[Plus[Number[0], TimesHalf[durationInMinutes]],
                  Times[domainCount, OneAndAHalf]],
             Times[pageCount, Fifth]],
        uniqueTopics]

\* the severity ladder
Severity[score \in Doubles] ==
  IF GreaterThan[score, 30] THEN "High"
  ELSE IF GreaterThan[score, 15] THEN "Medium"
  ELSE "Low"

\* the object scoreSession returns for the variable score; the score is kept
\* in hundredths (1500 is 15.00)
Result[score \in Doubles] ==
  [ rabbitholeScore    |-> ToFixed2[score],
    rabbitholeSeverity |-> Severity[score] ]

\* scoreSession without the test for allTopics: Object.keys(undefined) throws
scoreSessionUnguarded(session) ==
  IF "allTopics" \notin DOMAIN session THEN [raised |-> "TypeError"]
  ELSE Result[Score(session)]

\* scoreSession that returns the score the session carries when it has one
scoreSessionKeepingStored(session) ==
  IF "rabbitholeScore" \in DOMAIN session
  THEN [ rabbitholeScore    |-> session.rabbitholeScore,
         rabbitholeSeverity |-> session.rabbitholeSeverity ]
  ELSE Result[Score(session)]

\* the returned object
scoreSession(session) == Result[Score(session)]

\* ------------------------------------------------------------------- inputs
UrlAx == <<"h","t","t","p","s",":","/","/","a",".","c","o","m","/","x">>
UrlAy == <<"h","t","t","p","s",":","/","/","A",".","c","o","m","/","y">>
UrlB  == <<"h","t","t","p",":","/","/","b",".","o","r","g","/">>
UrlBad == <<"n","o","t"," ","a"," ","u","r","l">>

SentenceSolar ==
  <<"S","o","l","a","r"," ","e","n","e","r","g","y",","," ",
    "s","o","l","a","r"," ","P","O","W","E","R">>
SentenceEnergy == <<"E","n","e","r","g","y"," ","2","0","2","4">>

\* summarizer output with stop words, short tokens, punctuation and capitals
SentencePolicy ==
  <<"T","h","i","s"," ","a","r","t","i","c","l","e"," ","d","i","s","c","u",
    "s","s","e","s"," ","R","e","n","e","w","a","b","l","e"," ","E","n","e",
    "r","g","y"," ","P","o","l","i","c","y">>
SentenceMixed ==
  <<"T","h","e"," ","c","a","t"," ","A","N","D"," ","t","h","e","-","m","a",
    "t",","," ","e",".","g","."," ","(","P","O","L","I","C","Y",")"," ","w",
    "h","a","t","?">>

SentenceSingle ==
  <<"E","n","e","r","g","y",".">>

SentenceConstructor ==
  <<"C","o","n","s","t","r","u","c","t","o","r",".">>

\* the page data the callers pass: trackTab passes url and title, the content
\* script adds aiTopics
PageA  == [url |-> Some(UrlAx), title |-> "A", aiTopics |-> Nothing]
PageA2 == [url |-> Some(UrlAy), title |-> "A2",
           aiTopics |-> Some(<<SentenceSolar>>)]
PageB  == [url |-> Some(UrlB), title |-> "B",
           aiTopics |-> Some(<<SentenceEnergy>>)]
PageBad == [url |-> Some(UrlBad), title |-> "bad", aiTopics |-> Nothing]
PageNoUrl == [url |-> Nothing, title |-> "none", aiTopics |-> Nothing]
PageEmptyUrl == [url |-> Some(<<>>), title |-> "empty", aiTopics |-> Nothing]

ValidPages == {PageA, PageA2, PageB}
PageInputs ==
  {Nothing} \cup {Some(p) : p \in ValidPages \cup {PageBad, PageNoUrl, PageEmptyUrl}}

\* what LanguageModel.availability() resolves to
Availabilities == {"available", "readily", "downloadable", "unavailable"}

\* what ai_session.prompt() resolves to
ReplyTitle == <<" ","*","*","\"","S","o","l","a","r"," ","P","o","w","e","r","\"","*","*","\n">>
Replies == {ReplyTitle}

\* a reply with a heading mark, an underscore and quotes
ReplyHeading ==
  <<"#"," ","D","e","e","p","_","S","e","a"," ","\"","M","i","n","i","n",
    "g","\"","\n">>

\* the steps by which Date.now() advances between two reads
ClockSteps == {1, 10 * 60 * 1000, SESSION_GAP_THRESHOLD}

\* Date.now() when the service worker starts
InitialClock == 1000

Calls == 1..MaxCalls

\* -------------------------------------------------------------------- state
VARIABLES
  currentSession,  \* the 'currentSession' record of chrome.storage.session
  clock,           \* the value Date.now() returns
  ticks,           \* how many times the clock has changed
  hasLanguageModel,\* whether self.LanguageModel is defined
  pc,              \* per call: the await it is suspended at, or its outcome
  pageData,        \* per call: the argument
  data,            \* per call: what chrome.storage.session.get resolved to
  session,         \* per call: the local session object
  topKeywords,     \* per call: the keywords named in the synthesis prompt
  nowAt,           \* per call: the constant now, what Date.now() returned
  readAt,          \* per call: number of writes applied when its read resolved
  writeReads,      \* per write applied to 'currentSession': its call's readAt
  superseded,      \* ids of the sessions that were replaced by another id
  console,         \* the messages console.error has logged
  scoreArg,        \* the session object a caller of scoreSession holds
  scoreLog,        \* per scoreSession call made on it: argument and result
  withOffscreen,   \* whether blocker-engine.js is the version with the
                   \* Offscreen API (src/unnamed/part_004)
  settings,        \* the timeLimits of 'settings' in chrome.storage.local
  timeData,        \* per day, per hostname: totalTime in chrome.storage.local
  notified,        \* the 'notified_<domain>' entries of chrome.storage.session
  offscreenDocument, \* whether the offscreen document exists
  checkPc,         \* per checkTimeLimits call: the await it is at, or outcome
  checkDomain,     \* per checkTimeLimits call: the argument domain
  timeLimits,      \* per checkTimeLimits call: the timeLimits it got
  limitInMinutes,  \* per checkTimeLimits call: the limit it found
  totalTimeTodayInSeconds, \* per checkTimeLimits call: the total it read
  readDay,         \* per checkTimeLimits call: the day whose data it read
  notifiedAt,      \* per checkTimeLimits call: the timestamp it is storing
  soundPc,         \* per checkTimeLimits call: its triggerNotification
  timeReads,       \* the reads of time data: call, hostname and day
  alerts,          \* the notifications created, in order
  activeTabInfo,   \* the exported object of time-tracker.js
  idleState,       \* the state chrome.idle reported last
  idleListener,    \* whether initialize() has added its onStateChanged listener
  stopPc,          \* per stopTracking call: the await it is at, or outcome
  stopThen,        \* per stopTracking call: the tab of the trackTab that
                   \* waits for it with then(), if one does
  startTime,       \* per stopTracking call: activeTabInfo.startTime it saw
  urlToSave,       \* per stopTracking call: the url it passes on
  timeSpentInSeconds, \* per stopTracking call: the seconds it passes on
  today,           \* per saveTimeRecord call: the day of its storage key
  dayData,         \* per saveTimeRecord call: the day record it read
  timePages,       \* per day and hostname: pages in chrome.storage.local
  saveLog,         \* the saveTimeRecord calls made, in order
  saved,           \* the saveTimeRecord calls that have logged "Saved"
  lastCall         \* the tab of the latest trackTab call, Nothing after a
                   \* stopTracking call of the idle listener

vars ==
  << currentSession, clock, ticks, hasLanguageModel, pc, pageData, data,
     session, topKeywords, nowAt, readAt, writeReads, superseded, console,
     scoreArg, scoreLog, withOffscreen, settings, timeData, notified,
     offscreenDocument, checkPc, checkDomain, timeLimits, limitInMinutes,
     totalTimeTodayInSeconds, readDay, notifiedAt, soundPc, timeReads, alerts,
     activeTabInfo, idleState, idleListener, stopPc, stopThen, startTime,
     urlToSave, timeSpentInSeconds, today, dayData, timePages, saveLog,
     saved,
     lastCall >>

\* the state of the scorer's caller
scorer == << scoreArg, scoreLog >>

\* the locals of the checkTimeLimits calls
checkLocals ==
  << checkDomain, timeLimits, limitInMinutes, totalTimeTodayInSeconds, readDay,
     notifiedAt >>

\* what checkTimeLimits reads and never writes
limitInputs == << withOffscreen, settings, timeData >>

\* the state of the blocker engine
blocker ==
  << limitInputs, notified, offscreenDocument, checkPc, checkLocals, soundPc,
     timeReads, alerts >>

\* the locals of the stopTracking calls and of their saveTimeRecord calls
stopLocals ==
  << stopThen, startTime, urlToSave, timeSpentInSeconds, today, dayData >>

\* the state of the time tracker, with the pages saveTimeRecord stores
tracker ==
  << activeTabInfo, idleState, idleListener, stopPc, stopLocals, timePages,
     saveLog, saved, lastCall >>

\* what no step of addPageVisitToSession assigns: self.LanguageModel and
\* the state of the other modules
elsewhere == << hasLanguageModel, scorer, blocker, tracker >>

\* the locals of a call exist while it is suspended
locals == << pageData, data, session, topKeywords, nowAt, readAt >>

\* the record of the writes applied to the store
written == << currentSession, writeReads, superseded >>

\* writes applied to 'currentSession' so far
nWrites == Len(writeReads)

\* ---------------------------------------------- addPageVisitToSession, steps
\* Rejected without the test for the empty string
RejectedIfMissing(pd) == ~IsSome(pd) \/ ~IsSome(Get(pd).url)

\* the guard of the first line: !pageData || !pageData.url
Rejected(pd) == ~IsSome(pd) \/ ~IsSome(Get(pd).url) \/ Get(Get(pd).url) = <<>>

\* Expired with the threshold doubled (an hour)
ExpiredAfterAnHour(s, now) == now - s.lastActivity > 2 * SESSION_GAP_THRESHOLD

\* Expired with >= in place of >
ExpiredAtThreshold(s, now) == now - s.lastActivity >= SESSION_GAP_THRESHOLD

\* step 2: the loaded session is past the inactivity threshold
Expired(s, now) == now - s.lastActivity > SESSION_GAP_THRESHOLD

\* NewSession with an empty primaryTopic
NewSessionUntitled(now) ==
  [ id           |-> "session-" \o ToString(now),
    startTime    |-> now,
    pages        |-> <<>>,
    domains      |-> <<>>,
    allTopics    |-> <<>>,
    primaryTopic |-> <<>>,
    lastActivity |-> now ]

\* step 3: the empty session created at now
NewSession(now) ==
  [ id           |-> "session-" \o ToString(now),
    startTime    |-> now,
    pages        |-> <<>>,
    domains      |-> <<>>,
    allTopics    |-> <<>>,
    primaryTopic |-> Unknown,
    lastActivity |-> now ]

\* steps 2 and 3: the session the call works on
SessionFor(loaded, now) ==
  IF IsSome(loaded) /\ ~Expired(Get(loaded), now) THEN Get(loaded)
  ELSE NewSession(now)

\* RecordVisit without the push of line 56
RecordVisitWithoutPush(s, page, now) ==
  [s EXCEPT !.lastActivity = now]

\* step 4, first half: session.pages.push(pageData); session.lastActivity = now
RecordVisit(s, page, now) ==
  [s EXCEPT !.pages = Append(@, page), !.lastActivity = now]

\* AddDomain without the includes test
AddDomainAlways(s, domain) == [s EXCEPT !.domains = Append(@, domain)]

\* step 4, second half: the domain is pushed unless domains includes it
AddDomain(s, domain) ==
  IF Includes(s.domains, domain) THEN s
  ELSE [s EXCEPT !.domains = Append(@, domain)]

\* step 5 a-e: allTopics recomputed, the most frequent keyword as fallback
AnalyseTopics(s) ==
  LET keywordCounts == KeywordCounts(s.pages)
      top == TopKeywords(keywordCounts)
  IN  [s EXCEPT !.allTopics = keywordCounts,
                !.primaryTopic = IF Len(top) > 0 THEN top[1] ELSE @]

\* step 5 f: the reply of the model, cleaned
SynthesizedTopic(reply) == Trim(StripChars(reply, ReplyPunctuation))

\* step 6: the score and the severity stored onto the session
Scored(s) ==
  LET scored == scoreSession(s) IN
  [ id                 |-> s.id,
    startTime          |-> s.startTime,
    pages              |-> s.pages,
    domains            |-> s.domains,
    allTopics          |-> s.allTopics,
    primaryTopic       |-> s.primaryTopic,
    lastActivity       |-> s.lastActivity,
    rabbitholeScore    |-> scored.rabbitholeScore,
    rabbitholeSeverity |-> scored.rabbitholeSeverity ]

\* the session the first visit of the browser session, PageA at InitialClock,
\* leaves in the store; the store outlives a restart of the service worker
InitialSession ==
  Scored(AnalyseTopics(AddDomain(
    RecordVisit(NewSession(InitialClock), PageA, InitialClock),
    Get(Hostname(UrlAx)))))

\* The service worker starts either with an empty store or with the session
\* an earlier run of the worker persisted.
InitSessionManager ==
  /\ currentSession \in {Nothing, Some(InitialSession)}
  /\ clock = InitialClock
  /\ ticks = 0
  /\ hasLanguageModel \in BOOLEAN
  /\ pc = [c \in Calls |-> "idle"]
  /\ pageData = [c \in Calls |-> Nothing]
  /\ data = [c \in Calls |-> Nothing]
  /\ session = [c \in Calls |-> Nothing]
  /\ topKeywords = [c \in Calls |-> <<>>]
  /\ nowAt = [c \in Calls |-> -1]
  /\ readAt = [c \in Calls |-> -1]
  /\ writeReads = IF IsSome(currentSession) THEN <<0>> ELSE <<>>
  /\ superseded = {}
  /\ console = {}

\* ------------------------------------------------------------ checkTimeLimits
\* background/blocker-engine.js.  The repository holds the file twice: as
\* src/background/blocker-engine.js, whose checkTimeLimits creates the
\* notification as soon as the total exceeds the limit, and as
\* src/unnamed/part_004 (the version with the Offscreen API), which first
\* looks at the 'notified_<domain>' timestamp and plays a sound before the
\* notification.  withOffscreen tells which of the two is installed.

Checks == 1..MaxChecks

\* hostnames checkTimeLimits is called with: new URL(urlToSave).hostname
WwwYoutubeCom == <<"w","w","w",".","y","o","u","t","u","b","e",".","c","o","m">>
YoutubeCom == <<"y","o","u","t","u","b","e",".","c","o","m">>
ConstructorHost == ConstructorName
CheckedHosts == {WwwYoutubeCom, YoutubeCom, ConstructorHost}

\* the values a read of timeLimits[key] can give
Undefined == [type |-> "undefined"]
Num(n) == [type |-> "number", n |-> n]
NotANumber == [type |-> "NaN"]
\* Object.prototype.constructor, the function Object
ObjectFunction == [type |-> "function"]

\* obj[key] for a plain object obj whose own properties are numbers
Property(obj, key) ==
  IF key \in DOMAIN obj THEN Num(obj[key])
  ELSE IF key \in InheritedKeys THEN ObjectFunction
  ELSE Undefined

\* whether a value counts as true in a condition
Truthy(v) == v.type \notin {"undefined", "NaN"} /\ (v.type = "number" => v.n # 0)

\* domain.replace(/^www\./, '')
StripWww(d) ==
  IF Len(d) >= 4 /\ SubSeq(d, 1, 4) = <<"w","w","w",".">>
  THEN SubSeq(d, 5, Len(d))
  ELSE d

\* settings.timeLimits || {}
TimeLimitsOf(st) == IF IsSome(st) THEN Get(st) ELSE <<>>

\* timeLimits[domain] || timeLimits[domain.replace(/^www\./, '')]
LimitFor(limits, d) ==
  LET exact == Property(limits, d)
  IN  IF Truthy(exact) THEN exact ELSE Property(limits, StripWww(d))

\* limitInMinutes * 60
TimesSixty(v) == IF v.type = "number" THEN Num(v.n * 60) ELSE NotANumber

\* Exceeds with >= in place of >
ExceedsOrEquals(total, limit) == limit.type = "number" /\ total >= limit.n

\* totalTimeTodayInSeconds > limitInSeconds
Exceeds(total, limit) == limit.type = "number" /\ total > limit.n

MsPerDay == 24 * 60 * 60 * 1000
TenMinutes == 10 * 60 * 1000

\* new Date().toISOString().split('T')[0], as the number of the UTC day
Today(now) == now \div MsPerDay

\* (dayData[domain] || { totalTime: 0, pages: {} }).totalTime || 0
TotalTime(stored, day, d) ==
  IF day \in DOMAIN stored /\ d \in DOMAIN stored[day] THEN stored[day][d]
  ELSE 0

\* the limits the options page has stored: none, one for the bare hostname,
\* one for the www hostname, one for each
StoredLimits ==
  { Nothing,
    Some(YoutubeCom :> 1),
    Some(WwwYoutubeCom :> 1),
    Some((WwwYoutubeCom :> 2) @@ (YoutubeCom :> 1)) }

\* the time saveTimeRecord has stored for the first day: totals equal to a
\* limit of one minute, one second above it, and above two minutes
StoredTimes ==
  { <<>>,
    0 :> ((WwwYoutubeCom :> 61) @@ (YoutubeCom :> 60)),
    0 :> ((WwwYoutubeCom :> 121) @@ (YoutubeCom :> 61)) }

\* how far the clock moves between two steps
LimitClockSteps == {5 * 60 * 1000, MsPerDay}

\* no checkTimeLimits call is under way and nothing is configured
InitBlocker ==
  /\ withOffscreen = FALSE
  /\ settings = Nothing
  /\ timeData = <<>>
  /\ notified = <<>>
  /\ offscreenDocument = FALSE
  /\ checkPc = [k \in Checks |-> "idle"]
  /\ checkDomain = [k \in Checks |-> <<>>]
  /\ timeLimits = [k \in Checks |-> Nothing]
  /\ limitInMinutes = [k \in Checks |-> Undefined]
  /\ totalTimeTodayInSeconds = [k \in Checks |-> 0]
  /\ readDay = [k \in Checks |-> -1]
  /\ notifiedAt = [k \in Checks |-> -1]
  /\ soundPc = [k \in Checks |-> "idle"]
  /\ timeReads = <<>>
  /\ alerts = <<>>

\* ------------------------------------------------------------- time tracker
\* background/time-tracker.js and saveTimeRecord of utils/storage-manager.js.
\* A stopTracking call that gets as far as saveTimeRecord makes at most one
\* checkTimeLimits call, which takes the number of the stopTracking call.
Stops == Checks

\* activeTabInfo as the module sets it when it loads and when a
\* stopTracking call ends
NoTab == [tabId |-> Nothing, url |-> Nothing, startTime |-> Nothing]

\* activeTabInfo as the then() callback of trackTab sets it
Timing(tab, now) ==
  [tabId |-> Some(tab.id), url |-> Some(tab.url), startTime |-> Some(now)]

\* activeTabInfo.startTime counts as true
TimerRunning == IsSome(activeTabInfo.startTime) /\ Get(activeTabInfo.startTime) # 0

\* Math.round on a number of seconds given in milliseconds: the nearest
\* integer, the larger one of two
MathRound(ms) == (ms + 500) \div 1000

\* f with v stored under key
Put(f, key, v) == [x \in DOMAIN f \cup {key} |-> IF x = key THEN v ELSE f[x]]

\* the time tracker after the module was loaded: no timer, no listener of
\* chrome.idle yet, nothing stored
InitTracker ==
  /\ activeTabInfo = NoTab
  /\ idleState = "active"
  /\ idleListener = FALSE
  /\ stopPc = [k \in Stops |-> "idle"]
  /\ stopThen = [k \in Stops |-> Nothing]
  /\ startTime = [k \in Stops |-> -1]
  /\ urlToSave = [k \in Stops |-> <<>>]
  /\ timeSpentInSeconds = [k \in Stops |-> 0]
  /\ today = [k \in Stops |-> -1]
  /\ dayData = [k \in Stops |-> Nothing]
  /\ timePages = <<>>
  /\ saveLog = <<>>
  /\ saved = {}
  /\ lastCall = Nothing

\* no scoreSession call of its own is under way
InitScorer ==
  /\ scoreArg = Nothing
  /\ scoreLog = <<>>

Init ==
  /\ InitSessionManager
  /\ InitScorer
  /\ InitBlocker
  /\ InitTracker

\* -------------------------------------------------------------------- actions
\* the message of the inner catch
SynthesisFailed == "SESSION_MANAGER: Topic synthesis failed"
\* the message of the outer catch
UpdateFailed == "SESSION_MANAGER: Error updating session"

\* console.error(message)
Log(message) == console' = console \cup {message}

\* the calls suspended at an await
InFlight == {c \in Calls : pc[c] \notin {"idle", "rejected", "caught", "returned"}}

\* Call c returns to its caller (the promise is fulfilled) and its locals go.
\* how is the way it ended: "rejected" by the guard of the first line,
\* "caught" by the outer catch, "returned" after the write.
End(c, how) ==
  /\ pc' = [pc EXCEPT ![c] = how]
  /\ pageData' = [pageData EXCEPT ![c] = Nothing]
  /\ data' = [data EXCEPT ![c] = Nothing]
  /\ session' = [session EXCEPT ![c] = Nothing]
  /\ topKeywords' = [topKeywords EXCEPT ![c] = <<>>]
  /\ nowAt' = [nowAt EXCEPT ![c] = -1]
  /\ readAt' = [readAt EXCEPT ![c] = -1]

\* ScoreAndSet that scores only a session that carries no score yet
ScoreAndSetUnlessScored(c, s) ==
  /\ session' = [session EXCEPT ![c] =
       Some(IF "rabbitholeScore" \in DOMAIN s THEN s ELSE Scored(s))]
  /\ pc' = [pc EXCEPT ![c] = "set"]

\* steps 6 and 7 up to the await: call c scores s and calls
\* chrome.storage.session.set
ScoreAndSet(c, s) ==
  /\ session' = [session EXCEPT ![c] = Some(Scored(s))]
  /\ pc' = [pc EXCEPT ![c] = "set"]

\* addPageVisitToSession(pd) is entered as call c.  A rejected argument
\* returns at once; otherwise the call suspends at chrome.storage.session.get.
Entered(c, pd) ==
  /\ pc[c] = "idle"
  /\ IF Rejected(pd)
     THEN /\ pc' = [pc EXCEPT ![c] = "rejected"]
          /\ UNCHANGED pageData
     ELSE /\ Cardinality(InFlight) < MaxInFlight
          /\ pc' = [pc EXCEPT ![c] = "get"]
          /\ pageData' = [pageData EXCEPT ![c] = pd]
  /\ UNCHANGED << written, data, session, topKeywords, nowAt, readAt,
                  console >>

\* the call is entered and its caller does nothing else
Enter(c, pd) ==
  /\ Entered(c, pd)
  /\ UNCHANGED << clock, ticks, elsewhere >>

\* A caller (trackTab, or the PAGE_DATA message listener) calls
\* addPageVisitToSession(pd); calls are numbered in the order they are made.
Call(c, pd) ==
  /\ \A b \in Calls : b < c => pc[b] # "idle"
  /\ Enter(c, pd)

\* GetFails with the read outside the try: the rejection reaches the caller
GetFailsUncaught(c) ==
  /\ pc[c] = "get"
  /\ UNCHANGED console
  /\ End(c, "raised")
  /\ UNCHANGED << written, clock, ticks, elsewhere >>

\* chrome.storage.session.get rejects: the outer catch logs and the call ends
GetFails(c) ==
  /\ pc[c] = "get"
  /\ Log(UpdateFailed)
  /\ End(c, "caught")
  /\ UNCHANGED << written, clock, ticks, elsewhere >>

\* chrome.storage.session.get resolves with the record as it is now; the call
\* runs to its next await: the availability check when synthesis is tried,
\* the storage write otherwise.  A URL that does not parse throws after the
\* visit was pushed onto the local object, and the outer catch ends the call.
GetResolves(c) ==
  /\ pc[c] = "get"
  /\ LET now     == clock
         page    == Get(pageData[c])
         visited == RecordVisit(SessionFor(currentSession, now), page, now)
         domain  == Hostname(Get(page.url))
         analysed == AnalyseTopics(AddDomain(visited, Get(domain)))
         top     == TopKeywords(analysed.allTopics)
     IN  IF ~IsSome(domain)
         THEN Log(UpdateFailed) /\ End(c, "caught")
         ELSE /\ UNCHANGED console
              /\ data' = [data EXCEPT ![c] = currentSession]
              /\ readAt' = [readAt EXCEPT ![c] = nWrites]
              /\ nowAt' = [nowAt EXCEPT ![c] = now]
              /\ UNCHANGED pageData
              /\ IF Len(top) > 1 /\ hasLanguageModel
                 THEN /\ session' = [session EXCEPT ![c] = Some(analysed)]
                      /\ topKeywords' = [topKeywords EXCEPT ![c] = top]
                      /\ pc' = [pc EXCEPT ![c] = "availability"]
                 ELSE /\ ScoreAndSet(c, analysed)
                      /\ UNCHANGED topKeywords
  /\ UNCHANGED << written, clock, ticks, elsewhere >>

\* AvailabilityResolves that goes on unless the model is unavailable
AvailabilityResolvesUnlessUnavailable(c, availability) ==
  /\ pc[c] = "availability"
  /\ IF availability # "unavailable"
     THEN /\ pc' = [pc EXCEPT ![c] = "create"]
          /\ UNCHANGED session
     ELSE ScoreAndSet(c, Get(session[c]))
  /\ UNCHANGED << written, clock, ticks, elsewhere, pageData,
                  data, topKeywords, nowAt, readAt, console >>

\* self.LanguageModel.availability() resolves
AvailabilityResolves(c, availability) ==
  /\ pc[c] = "availability"
  /\ IF availability \in {"available", "readily"}
     THEN /\ pc' = [pc EXCEPT ![c] = "create"]
          /\ UNCHANGED session
     ELSE ScoreAndSet(c, Get(session[c]))
  /\ UNCHANGED << written, clock, ticks, elsewhere, pageData,
                  data, topKeywords, nowAt, readAt, console >>

\* self.LanguageModel.create() resolves
CreateResolves(c) ==
  /\ pc[c] = "create"
  /\ pc' = [pc EXCEPT ![c] = "prompt"]
  /\ UNCHANGED << written, clock, ticks, elsewhere, locals, console >>

\* ai_session.prompt() resolves: the cleaned reply becomes the primary topic
PromptResolves(c, reply) ==
  /\ pc[c] = "prompt"
  /\ ScoreAndSet(c, [Get(session[c]) EXCEPT !.primaryTopic = SynthesizedTopic(reply)])
  /\ UNCHANGED << written, clock, ticks, elsewhere, pageData,
                  data, topKeywords, nowAt, readAt, console >>

\* SynthesisFails without the inner try: the outer catch ends the call
SynthesisFailsUncaught(c) ==
  /\ pc[c] \in {"availability", "create", "prompt"}
  /\ Log(UpdateFailed)
  /\ End(c, "caught")
  /\ UNCHANGED << written, clock, ticks, elsewhere >>

\* availability(), create() or prompt() rejects: the inner catch logs, the
\* fallback topic stays
SynthesisFails(c) ==
  /\ pc[c] \in {"availability", "create", "prompt"}
  /\ Log(SynthesisFailed)
  /\ ScoreAndSet(c, Get(session[c]))
  /\ UNCHANGED << written, clock, ticks, elsewhere, pageData,
                  data, topKeywords, nowAt, readAt >>

\* SetResolves that appends the visit to the pages stored now when the
\* stored session has the id of the local one, instead of replacing the record
SetResolvesMerging(c) ==
  /\ pc[c] = "set"
  /\ currentSession' =
       IF IsSome(currentSession) /\ Get(currentSession).id = Get(session[c]).id
       THEN Some([Get(session[c]) EXCEPT
                    !.pages = Append(Get(currentSession).pages, Get(pageData[c]))])
       ELSE session[c]
  /\ writeReads' = Append(writeReads, readAt[c])
  /\ superseded' =
       IF IsSome(currentSession) /\ Get(currentSession).id # Get(session[c]).id
       THEN superseded \cup {Get(currentSession).id}
       ELSE superseded
  /\ End(c, "returned")
  /\ UNCHANGED << clock, ticks, elsewhere, console >>

\* SetResolves that waits while another call is suspended in synthesis
SetResolvesAfterSynthesis(c) ==
  /\ pc[c] = "set"
  /\ \A b \in Calls \ {c} : pc[b] \notin {"availability", "create", "prompt"}
  /\ currentSession' = session[c]
  /\ writeReads' = Append(writeReads, readAt[c])
  /\ superseded' =
       IF IsSome(currentSession) /\ Get(currentSession).id # Get(session[c]).id
       THEN superseded \cup {Get(currentSession).id}
       ELSE superseded
  /\ End(c, "returned")
  /\ UNCHANGED << clock, ticks, elsewhere, console >>

\* SetResolves that empties chrome.storage.session before it stores the
\* record: the 'notified_<domain>' timestamps of the same area go
SetResolvesClearing(c) ==
  /\ pc[c] = "set"
  /\ currentSession' = session[c]
  /\ notified' = <<>>
  /\ writeReads' = Append(writeReads, readAt[c])
  /\ superseded' =
       IF IsSome(currentSession) /\ Get(currentSession).id # Get(session[c]).id
       THEN superseded \cup {Get(currentSession).id}
       ELSE superseded
  /\ End(c, "returned")
  /\ UNCHANGED << clock, ticks, console, hasLanguageModel, scorer, limitInputs,
                  offscreenDocument, checkPc, checkLocals, soundPc, timeReads,
                  alerts, tracker >>

\* chrome.storage.session.set resolves: the record is replaced by the local
\* session object and the call returns
SetResolves(c) ==
  /\ pc[c] = "set"
  /\ currentSession' = session[c]
  /\ writeReads' = Append(writeReads, readAt[c])
  /\ superseded' =
       IF IsSome(currentSession) /\ Get(currentSession).id # Get(session[c]).id
       THEN superseded \cup {Get(currentSession).id}
       ELSE superseded
  /\ End(c, "returned")
  /\ UNCHANGED << clock, ticks, elsewhere, console >>

\* SetFails when the rejected write has stored the session all the same
SetFailsAfterStoring(c) ==
  /\ pc[c] = "set"
  /\ Log(UpdateFailed)
  /\ currentSession' = session[c]
  /\ End(c, "caught")
  /\ UNCHANGED << writeReads, superseded, clock, ticks, elsewhere >>

\* chrome.storage.session.set rejects: the outer catch logs and the call ends
SetFails(c) ==
  /\ pc[c] = "set"
  /\ Log(UpdateFailed)
  /\ End(c, "caught")
  /\ UNCHANGED << written, clock, ticks, elsewhere >>

\* Time passes.  Only the Date.now() of a call whose read resolves looks at
\* the clock, so it is advanced only while a read is pending.
Tick(d) ==
  /\ ticks < MaxTicks
  /\ \E c \in Calls : pc[c] = "get"
  /\ clock' = clock + d
  /\ ticks' = ticks + 1
  /\ UNCHANGED << written, elsewhere, pc, locals, console >>

\* the system clock is set back
ClockSetBack(d) ==
  /\ ticks < MaxTicks
  /\ \E c \in Calls : pc[c] = "get"
  /\ clock - d >= 0
  /\ clock' = clock - d
  /\ ticks' = ticks + 1
  /\ UNCHANGED << written, elsewhere, pc, locals, console >>

Next ==
  \/ \E c \in Calls, pd \in PageInputs : Call(c, pd)
  \/ \E c \in Calls : GetFails(c)
  \/ \E c \in Calls : GetResolves(c)
  \/ \E c \in Calls, a \in Availabilities : AvailabilityResolves(c, a)
  \/ \E c \in Calls : CreateResolves(c)
  \/ \E c \in Calls, r \in Replies : PromptResolves(c, r)
  \/ \E c \in Calls : SynthesisFails(c)
  \/ \E c \in Calls : SetResolves(c)
  \/ \E c \in Calls : SetFails(c)
  \/ \E d \in ClockSteps : Tick(d)

\* the calls under a clock that only advances
Spec == Init /\ [][Next]_vars

\* One call alone: the steps of the first call.
NextSingleCall ==
  \/ \E pd \in PageInputs : Call(1, pd)
  \/ GetFails(1)
  \/ GetResolves(1)
  \/ \E a \in Availabilities : AvailabilityResolves(1, a)
  \/ CreateResolves(1)
  \/ \E r \in Replies : PromptResolves(1, r)
  \/ SynthesisFails(1)
  \/ SetResolves(1)
  \/ SetFails(1)
  \/ \E d \in ClockSteps : Tick(d)

\* The storage promises settle: chrome.storage.session.get and set resolve
\* or reject.  Nothing makes a promise of the language model settle.
StorageSettles ==
  /\ WF_vars(GetFails(1) \/ GetResolves(1))
  /\ WF_vars(SetResolves(1) \/ SetFails(1))

\* one call when every storage operation completes
SpecStorageSettles == Init /\ [][NextSingleCall]_vars /\ StorageSettles

NextWallClock ==
  \/ Next
  \/ \E d \in ClockSteps : ClockSetBack(d)

\* the calls under a wall clock that may also be set back
SpecWallClock == Init /\ [][NextWallClock]_vars

\* ------------------------------------------------------------ one page load
\* A page finishes loading in the active tab.  tabs.onUpdated reports status
\* complete and the listener calls trackTab(tab), which passes the basic page
\* data on; the content script of the page sends its PAGE_DATA message, whose
\* payload the message listener passes on.  Each of the two happens once.

\* the tab that finished loading
TabB == [id |-> 1, url |-> UrlB, title |-> "B"]

\* tab.url.startsWith('http')
StartsWithHttp(url) == Len(url) >= 4 /\ SubSeq(url, 1, 4) = <<"h","t","t","p">>

\* basicPageData of trackTab: the url and the title of the tab
basicPageData(tab) ==
  [ url      |-> Some(tab.url),
    title    |-> IF tab.title = "" THEN "Loading..." ELSE tab.title,
    aiTopics |-> Nothing ]

\* the payloads the content script of the page sends: getPageData() with
\* aiTopics empty, or filled by the summarizer
PagePayloads(tab) ==
  { [url |-> Some(tab.url), title |-> tab.title, aiTopics |-> Some(topics)] :
      topics \in { <<>>, <<SentenceSingle>>, <<SentenceEnergy>>,
                   <<SentencePolicy>>, <<SentencePolicy, SentenceMixed>>,
                   <<SentenceConstructor>> } }

\* the call trackTab makes for the page
TrackTabCall == 1
\* the call the message listener makes for the page
PageDataCall == 2

\* trackTab(tab), after stopTracking: a valid web page is passed on
TrackTab(tab) ==
  /\ StartsWithHttp(tab.url)
  /\ Enter(TrackTabCall, Some(basicPageData(tab)))

\* the onMessage listener receives PAGE_DATA
PageDataMessage(payload) == Enter(PageDataCall, Some(payload))

\* what ai_session.prompt() resolves to during the page load
PageLoadReplies == {ReplyTitle, ReplyHeading}

NextPageLoad ==
  \/ TrackTab(TabB)
  \/ \E payload \in PagePayloads(TabB) : PageDataMessage(payload)
  \/ \E c \in Calls : GetFails(c)
  \/ \E c \in Calls : GetResolves(c)
  \/ \E c \in Calls, a \in Availabilities : AvailabilityResolves(c, a)
  \/ \E c \in Calls : CreateResolves(c)
  \/ \E c \in Calls, r \in PageLoadReplies : PromptResolves(c, r)
  \/ \E c \in Calls : SynthesisFails(c)
  \/ \E c \in Calls : SetResolves(c)
  \/ \E c \in Calls : SetFails(c)
  \/ \E d \in ClockSteps : Tick(d)

\* one page load in the active tab
SpecPageLoad == Init /\ [][NextPageLoad]_vars

\* ------------------------------------------------------- scoreSession alone
\* scoreSession called on its own.  A caller holds a session object, calls
\* scoreSession on it, and calls it again on the same object, on one that
\* differs from it only in fields the scorer does not read, or on one with
\* other topics.

\* what the steps of the scorer's caller leave alone
sessionState ==
  << currentSession, clock, ticks, hasLanguageModel, pc, locals, writeReads,
     superseded, console >>

\* lastActivity - startTime of the sessions given to the scorer, in
\* milliseconds: none, 1 ms, durations that put the sum halfway between two
\* hundredths (0.005 and 0.125 points), 10, 20 and 40 minutes and 1 ms and
\* 600 ms more, and a lastActivity before startTime
ScoredDurations ==
  { 0, 1, 600, 15000, 600000, 600001, 600600, 1200000, 2400000, 2400001, -600 }

\* their domains and pages: one visit, three visits on two hosts, five
\* visits on two hosts
ScoredVisits ==
  { [domains |-> <<Get(Hostname(UrlAx))>>, pages |-> <<PageA>>],
    [domains |-> <<Get(Hostname(UrlAx)), Get(Hostname(UrlB))>>,
     pages |-> <<PageA, PageB, PageA2>>],
    [domains |-> <<Get(Hostname(UrlAx)), Get(Hostname(UrlB))>>,
     pages |-> <<PageA, PageB, PageA2, PageA, PageB>>] }

\* their allTopics: the first n keywords of the policy sentence
ScoredTopics(n) ==
  SubSeq(KeywordCounts(<<[aiTopics |-> Some(<<SentencePolicy>>)]>>), 1, n)

\* a session as addPageVisitToSession holds it at step 6
SessionToScore(duration, visits, topics) ==
  [ id           |-> "session-" \o ToString(InitialClock),
    startTime    |-> InitialClock,
    pages        |-> visits.pages,
    domains      |-> visits.domains,
    allTopics    |-> topics,
    primaryTopic |-> Unknown,
    lastActivity |-> InitialClock + duration ]

\* the object without its allTopics property
WithoutTopics(s) == [f \in DOMAIN s \ {"allTopics"} |-> s[f]]

\* the sessions the scorer is given first
ScoreInputs ==
  LET withTopics ==
        { SessionToScore(duration, visits, ScoredTopics(n)) :
            duration \in ScoredDurations, visits \in ScoredVisits, n \in 0..4 }
  IN  withTopics
        \cup { WithoutTopics(s) :
                 s \in { t \in withTopics : t.allTopics = <<>> } }

\* s with another id and primaryTopic, and s as it is loaded from the store,
\* with the score and the severity of an earlier update on it
Variants(s) ==
  { [f \in DOMAIN s |->
       IF f = "id" THEN "session-7"
       ELSE IF f = "primaryTopic" THEN <<"e","n","e","r","g","y">>
       ELSE s[f]],
    [f \in DOMAIN s \cup {"rabbitholeScore", "rabbitholeSeverity"} |->
       IF f = "rabbitholeScore" THEN 9999
       ELSE IF f = "rabbitholeSeverity" THEN "High"
       ELSE s[f]] }

\* s with the keywords of a later analysis as its allTopics
TopicsChanged(s) ==
  { [f \in DOMAIN s \cup {"allTopics"} |->
       IF f = "allTopics" THEN ScoredTopics(n) ELSE s[f]] : n \in 0..4 }

InitScoring ==
  /\ InitSessionManager
  /\ currentSession = Nothing
  /\ ~hasLanguageModel
  /\ scoreArg \in {Some(s) : s \in ScoreInputs}
  /\ scoreLog = <<>>
  /\ InitBlocker
  /\ InitTracker

\* the caller calls scoreSession on the object it holds; scoreSession
\* assigns to no property of it
ScoreSession ==
  /\ IsSome(scoreArg)
  /\ Len(scoreLog) < MaxScored
  /\ scoreLog' = Append(scoreLog, [ session |-> Get(scoreArg),
                                    result  |-> scoreSession(Get(scoreArg)) ])
  /\ UNCHANGED << scoreArg, sessionState, blocker, tracker >>

\* the caller, its object scored, takes up another one
HoldAnother(v) ==
  /\ IsSome(scoreArg)
  /\ scoreLog # <<>>
  /\ Len(scoreLog) < MaxScored
  /\ scoreLog[Len(scoreLog)].session = Get(scoreArg)
  /\ v # Get(scoreArg)
  /\ scoreArg' = Some(v)
  /\ UNCHANGED << scoreLog, sessionState, blocker, tracker >>

NextScoring ==
  \/ ScoreSession
  \/ \E v \in Variants(Get(scoreArg)) \cup TopicsChanged(Get(scoreArg)) :
       HoldAnother(v)

\* scoreSession on its own
SpecScoring == InitScoring /\ [][NextScoring]_vars

\* ---------------------------------------------------- checkTimeLimits, steps
\* the state of the session manager and of the scorer's caller
sessionSide ==
  << currentSession, hasLanguageModel, pc, locals, writeReads, superseded,
     console, scorer >>

\* what the steps of a checkTimeLimits call leave alone unless they say so
checkFrame == << sessionSide, clock, ticks, limitInputs, tracker >>

\* the calls that have not returned to their caller
ChecksInFlight == {k \in Checks : checkPc[k] \notin {"idle", "returned", "raised"}}

\* a call whose triggerNotification has not finished
Sounding(k) == soundPc[k] \in {"getContexts", "createDocument"}

\* checkTimeLimits(d) is entered as call k and runs up to the await of
\* getSettings()
CheckEntered(k, d) ==
  /\ checkPc[k] = "idle"
  /\ checkPc' = [checkPc EXCEPT ![k] = "getSettings"]
  /\ checkDomain' = [checkDomain EXCEPT ![k] = d]
  /\ UNCHANGED << notified, offscreenDocument, timeLimits, limitInMinutes,
                  totalTimeTodayInSeconds, readDay, notifiedAt, soundPc,
                  timeReads, alerts >>

\* A caller (stopTracking) calls checkTimeLimits(d); the call runs up to the
\* await of getSettings().  Calls are numbered in the order they are made.
CheckTimeLimits(k, d) ==
  /\ \A b \in Checks : b < k => checkPc[b] # "idle"
  /\ CheckEntered(k, d)
  /\ UNCHANGED checkFrame

\* The call goes on with the timeLimits it got: the lookup, the return when
\* no limit was found, else getDomainDataForToday(domain) up to its await
\* (the key of today is taken before the read of chrome.storage.local).
Lookup(k, limits) ==
  LET limit == LimitFor(limits, checkDomain[k])
  IN  /\ timeLimits' = [timeLimits EXCEPT ![k] = Some(limits)]
      /\ limitInMinutes' = [limitInMinutes EXCEPT ![k] = limit]
      /\ IF ~Truthy(limit)
         THEN /\ checkPc' = [checkPc EXCEPT ![k] = "returned"]
              /\ UNCHANGED << readDay, timeReads >>
         ELSE /\ checkPc' = [checkPc EXCEPT ![k] = "getDomainData"]
              /\ readDay' = [readDay EXCEPT ![k] = Today(clock)]
              /\ timeReads' = Append(timeReads,
                   [call |-> k, domain |-> checkDomain[k], day |-> Today(clock)])
      /\ UNCHANGED << checkFrame, notified, offscreenDocument, checkDomain,
                      totalTimeTodayInSeconds, notifiedAt, soundPc, alerts >>

\* getSettings() resolves to the stored settings
SettingsResolve(k) ==
  /\ checkPc[k] = "getSettings"
  /\ Lookup(k, TimeLimitsOf(settings))

\* the read of 'settings' rejects: getSettings logs and resolves to {}
SettingsFail(k) ==
  /\ checkPc[k] = "getSettings"
  /\ Lookup(k, <<>>)

\* chrome.notifications.create('limit-exceeded-' + domain, ...)
CreateNotification(k) ==
  alerts' = Append(alerts,
    [ call           |-> k,
      domain         |-> checkDomain[k],
      limitInMinutes |-> limitInMinutes[k].n,
      total          |-> totalTimeTodayInSeconds[k],
      day            |-> readDay[k],
      at             |-> clock ])

\* The call goes on with the total it got: when the total exceeds the limit
\* the installed version either creates the notification and returns, or
\* reads 'notified_<domain>' and is suspended there.
Compare(k, total) ==
  /\ totalTimeTodayInSeconds' = [totalTimeTodayInSeconds EXCEPT ![k] = total]
  /\ IF ~Exceeds(total, TimesSixty(limitInMinutes[k]))
     THEN /\ checkPc' = [checkPc EXCEPT ![k] = "returned"]
          /\ UNCHANGED alerts
     ELSE IF withOffscreen
     THEN /\ checkPc' = [checkPc EXCEPT ![k] = "getNotified"]
          /\ UNCHANGED alerts
     ELSE /\ checkPc' = [checkPc EXCEPT ![k] = "returned"]
          /\ alerts' = Append(alerts,
               [ call           |-> k,
                 domain         |-> checkDomain[k],
                 limitInMinutes |-> limitInMinutes[k].n,
                 total          |-> total,
                 day            |-> readDay[k],
                 at             |-> clock ])
  /\ UNCHANGED << checkFrame, notified, offscreenDocument, checkDomain, timeLimits,
                  limitInMinutes, readDay, notifiedAt, soundPc, timeReads >>

\* the read of today's data resolves
DomainDataResolves(k) ==
  /\ checkPc[k] = "getDomainData"
  /\ Compare(k, TotalTime(timeData, readDay[k], checkDomain[k]))

\* the read of today's data rejects: getDomainDataForToday logs and resolves
\* to a total of 0
DomainDataFails(k) ==
  /\ checkPc[k] = "getDomainData"
  /\ Compare(k, 0)

\* chrome.storage.session.get(['notified_' + domain]) resolves.  With no
\* timestamp, or one more than ten minutes old, triggerNotification is called
\* (it runs up to the await of getContexts in playSound) and the call is
\* suspended at the write of Date.now(); otherwise the call returns.
NotifiedResolves(k) ==
  /\ checkPc[k] = "getNotified"
  /\ IF \/ checkDomain[k] \notin DOMAIN notified
        \/ notified[checkDomain[k]] < clock - TenMinutes
     THEN /\ soundPc' = [soundPc EXCEPT ![k] = "getContexts"]
          /\ notifiedAt' = [notifiedAt EXCEPT ![k] = clock]
          /\ checkPc' = [checkPc EXCEPT ![k] = "setNotified"]
     ELSE /\ checkPc' = [checkPc EXCEPT ![k] = "returned"]
          /\ UNCHANGED << soundPc, notifiedAt >>
  /\ UNCHANGED << checkFrame, notified, offscreenDocument, checkDomain, timeLimits,
                  limitInMinutes, totalTimeTodayInSeconds, readDay, timeReads,
                  alerts >>

\* the read of 'notified_<domain>' rejects: checkTimeLimits rejects
NotifiedFails(k) ==
  /\ checkPc[k] = "getNotified"
  /\ checkPc' = [checkPc EXCEPT ![k] = "raised"]
  /\ UNCHANGED << checkFrame, notified, offscreenDocument, checkLocals,
                  soundPc, timeReads, alerts >>

\* the write of 'notified_<domain>' is applied and the call returns
SetNotifiedResolves(k) ==
  /\ checkPc[k] = "setNotified"
  /\ notified' = [h \in DOMAIN notified \cup {checkDomain[k]} |->
                    IF h = checkDomain[k] THEN notifiedAt[k] ELSE notified[h]]
  /\ checkPc' = [checkPc EXCEPT ![k] = "returned"]
  /\ UNCHANGED << checkFrame, offscreenDocument, checkLocals, soundPc,
                  timeReads, alerts >>

\* the write of 'notified_<domain>' rejects: checkTimeLimits rejects
SetNotifiedFails(k) ==
  /\ checkPc[k] = "setNotified"
  /\ checkPc' = [checkPc EXCEPT ![k] = "raised"]
  /\ UNCHANGED << checkFrame, notified, offscreenDocument, checkLocals,
                  soundPc, timeReads, alerts >>

\* playSound: chrome.runtime.getContexts resolves.  With an offscreen
\* document the play-sound message is sent and the notification created;
\* without one playSound is suspended at chrome.offscreen.createDocument.
ContextsResolve(k) ==
  /\ soundPc[k] = "getContexts"
  /\ IF offscreenDocument
     THEN /\ soundPc' = [soundPc EXCEPT ![k] = "done"]
          /\ CreateNotification(k)
     ELSE /\ soundPc' = [soundPc EXCEPT ![k] = "createDocument"]
          /\ UNCHANGED alerts
  /\ UNCHANGED << checkFrame, notified, offscreenDocument, checkPc,
                  checkLocals, timeReads >>

\* playSound: the offscreen document is created, the play-sound message is
\* sent and the notification created
DocumentCreated(k) ==
  /\ soundPc[k] = "createDocument"
  /\ ~offscreenDocument
  /\ offscreenDocument' = TRUE
  /\ soundPc' = [soundPc EXCEPT ![k] = "done"]
  /\ CreateNotification(k)
  /\ UNCHANGED << checkFrame, notified, checkPc, checkLocals, timeReads >>

\* playSound: getContexts or createDocument rejects (createDocument does
\* when a document exists by then); nobody handles the rejection of
\* triggerNotification and no notification is created
SoundFails(k) ==
  /\ Sounding(k)
  /\ soundPc' = [soundPc EXCEPT ![k] = "failed"]
  /\ UNCHANGED << checkFrame, notified, offscreenDocument, checkPc,
                  checkLocals, timeReads, alerts >>

\* time passes while a call, or its triggerNotification, is under way
TimePasses(d) ==
  /\ ticks < MaxTicks
  /\ \E k \in Checks : k \in ChecksInFlight \/ Sounding(k)
  /\ clock' = clock + d
  /\ ticks' = ticks + 1
  /\ UNCHANGED << sessionSide, blocker, tracker >>

\* the installed version, the stored limits and the stored times are any of
\* those above; an offscreen document may be left from an earlier alert
InitLimits ==
  /\ InitSessionManager
  /\ currentSession = Nothing
  /\ ~hasLanguageModel
  /\ InitScorer
  /\ withOffscreen \in BOOLEAN
  /\ settings \in StoredLimits
  /\ timeData \in StoredTimes
  /\ notified = <<>>
  /\ offscreenDocument \in (IF withOffscreen THEN BOOLEAN ELSE {FALSE})
  /\ checkPc = [k \in Checks |-> "idle"]
  /\ checkDomain = [k \in Checks |-> <<>>]
  /\ timeLimits = [k \in Checks |-> Nothing]
  /\ limitInMinutes = [k \in Checks |-> Undefined]
  /\ totalTimeTodayInSeconds = [k \in Checks |-> 0]
  /\ readDay = [k \in Checks |-> -1]
  /\ notifiedAt = [k \in Checks |-> -1]
  /\ soundPc = [k \in Checks |-> "idle"]
  /\ timeReads = <<>>
  /\ alerts = <<>>
  /\ InitTracker

NextLimits ==
  \/ \E k \in Checks, d \in CheckedHosts : CheckTimeLimits(k, d)
  \/ \E k \in Checks : SettingsResolve(k)
  \/ \E k \in Checks : SettingsFail(k)
  \/ \E k \in Checks : DomainDataResolves(k)
  \/ \E k \in Checks : DomainDataFails(k)
  \/ \E k \in Checks : NotifiedResolves(k)
  \/ \E k \in Checks : NotifiedFails(k)
  \/ \E k \in Checks : SetNotifiedResolves(k)
  \/ \E k \in Checks : SetNotifiedFails(k)
  \/ \E k \in Checks : ContextsResolve(k)
  \/ \E k \in Checks : DocumentCreated(k)
  \/ \E k \in Checks : SoundFails(k)
  \/ \E d \in LimitClockSteps : TimePasses(d)

\* checkTimeLimits calls for any hostnames, interleaved at their awaits
SpecLimits == InitLimits /\ [][NextLimits]_vars

\* ------------------------------------------------------ the time tracker, steps
\* the hostnames of the URLs of the inputs, written out
HostA == <<"a",".","c","o","m">>
HostB == <<"b",".","o","r","g">>

\* the tab tracked when the service worker is already running
TabA == [id |-> 2, url |-> UrlAx, title |-> "A"]
NewTabUrl == <<"c","h","r","o","m","e",":","/","/","n","e","w","t","a","b","/">>
TabNew == [id |-> 3, url |-> NewTabUrl, title |-> "New Tab"]

\* the tabs the listeners of the service worker pass to trackTab: a web page
\* and the new tab page
TrackedTabs == {TabB, TabNew}

\* tab && tab.id && tab.url && tab.url.startsWith('http')
ValidTab(tab) == tab.id # 0 /\ tab.url # <<>> /\ StartsWithHttp(tab.url)

\* what a step of the session manager may assign
sessionCalls == << pc, locals, written, console >>

\* what a step of checkTimeLimits may assign
checkState ==
  << notified, offscreenDocument, checkPc, checkLocals, soundPc, timeReads,
     alerts >>

\* what no step of the time tracker assigns
trackerFrame == << hasLanguageModel, scorer, withOffscreen, settings >>

\* the stopTracking calls suspended at an await
StopsInFlight == {k \in Stops : stopPc[k] \notin {"idle", "returned"}}

\* The promise of stopTracking is fulfilled with activeTabInfo being base and
\* the then() callback of trackTab, if one waits, runs: for a valid web page
\* it sets activeTabInfo and calls addPageVisitToSession, numbered as the
\* next call.
Then(base, tab) ==
  IF IsSome(tab) /\ ValidTab(Get(tab))
  THEN /\ activeTabInfo' = Timing(Get(tab), clock)
       /\ \E c \in Calls :
            /\ \A b \in Calls : b < c => pc[b] # "idle"
            /\ Entered(c, Some(basicPageData(Get(tab))))
  ELSE /\ activeTabInfo' = base
       /\ UNCHANGED sessionCalls

\* timeSpentInSeconds > 1 with >= in place of >
MeaningfulFromOne(timeSpent) == timeSpent >= 1

\* timeSpentInSeconds > 1
Meaningful(timeSpent) == timeSpent > 1

\* stopTracking() is called, by the idle listener (tab is Nothing) or by
\* trackTab(tab), as call k.  Without a timer it returns at once.  With one
\* it takes the seconds since startTime; when these are more than 1 it calls
\* saveTimeRecord(urlToSave, timeSpentInSeconds), which runs up to the await
\* of chrome.storage.local.get (the url of a timer starts with http and
\* parses: lines 9 and 14 of saveTimeRecord let it pass); otherwise it
\* resets activeTabInfo and returns.
StopTracking(k, tab) ==
  /\ stopPc[k] = "idle"
  /\ \A b \in Stops : b < k => stopPc[b] # "idle"
  /\ lastCall' = tab
  /\ IF ~TimerRunning
     THEN /\ Then(activeTabInfo, tab)
          /\ UNCHANGED << stopPc, stopLocals, saveLog, saved >>
     ELSE LET timeSpent == MathRound(clock - Get(activeTabInfo.startTime))
              url == Get(activeTabInfo.url)
          IN  IF Meaningful(timeSpent)
              THEN /\ StartsWithHttp(url)
                   /\ IsSome(Hostname(url))
                   /\ stopPc' = [stopPc EXCEPT ![k] = "get"]
                   /\ stopThen' = [stopThen EXCEPT ![k] = tab]
                   /\ startTime' = [startTime EXCEPT ![k] =
                        Get(activeTabInfo.startTime)]
                   /\ urlToSave' = [urlToSave EXCEPT ![k] = url]
                   /\ timeSpentInSeconds' =
                        [timeSpentInSeconds EXCEPT ![k] = timeSpent]
                   /\ today' = [today EXCEPT ![k] = Today(clock)]
                   /\ saved' = saved
                   /\ saveLog' = Append(saveLog,
                        [ call    |-> k,
                          url     |-> url,
                          seconds |-> timeSpent,
                          from    |-> Get(activeTabInfo.startTime),
                          day     |-> Today(clock) ])
                   /\ UNCHANGED << activeTabInfo, sessionCalls, dayData >>
              ELSE /\ Then(NoTab, tab)
                   /\ UNCHANGED << stopPc, stopLocals, saveLog, saved >>
  /\ UNCHANGED << trackerFrame, clock, ticks, timeData, timePages, checkState,
                  idleListener >>

\* trackTab(tab): stopTracking().then(...)
trackTab(k, tab) ==
  /\ StopTracking(k, Some(tab))
  /\ UNCHANGED idleState

\* tabs.onActivated: the listener gets the tab and calls trackTab(tab)
OnActivated(k, tab) == trackTab(k, tab)

\* tabs.onUpdated with status complete for the active tab: trackTab(tab)
OnUpdated(k, tab) == trackTab(k, tab)

\* windows.onFocusChanged to a window: trackTab(activeTabs[0])
OnFocusChanged(k, tab) == trackTab(k, tab)

\* initialize(): the onInstalled or the onStartup listener of the service
\* worker adds the listener of chrome.idle.onStateChanged
Initialize ==
  /\ ~idleListener
  /\ idleListener' = TRUE
  /\ UNCHANGED << sessionSide, blocker, clock, ticks, activeTabInfo, idleState,
                  stopPc, stopLocals, timePages, saveLog, saved, lastCall >>

\* chrome.idle reports 'idle' or 'locked': the listener, when there is one,
\* calls stopTracking()
BecomesIdle(newState) ==
  /\ newState \in {"idle", "locked"}
  /\ newState # idleState
  /\ idleState' = newState
  /\ IF idleListener
     THEN \E k \in Stops : StopTracking(k, Nothing)
     ELSE UNCHANGED << sessionSide, blocker, clock, ticks, activeTabInfo,
                       idleListener, stopPc, stopLocals, timePages, saveLog, saved,
                       lastCall >>

\* chrome.idle reports 'active': the listener, when there is one, asks for
\* the active tab and calls trackTab(tabs[0]) when there is one
BecomesActive(tab) ==
  /\ idleState # "active"
  /\ idleState' = "active"
  /\ IF idleListener /\ IsSome(tab)
     THEN \E k \in Stops : StopTracking(k, tab)
     ELSE UNCHANGED << sessionSide, blocker, clock, ticks, activeTabInfo,
                       idleListener, stopPc, stopLocals, timePages, saveLog, saved,
                       lastCall >>

\* lines 25 to 28 of saveTimeRecord without line 27
AddTimeToTotalOnly(read, d, url, seconds) ==
  LET total == IF d \in DOMAIN read.totalTime THEN read.totalTime[d] ELSE 0
      pages == IF d \in DOMAIN read.pages THEN read.pages[d] ELSE <<>>
  IN  [ totalTime |-> Put(read.totalTime, d, total + seconds),
        pages     |-> Put(read.pages, d, pages) ]

\* lines 25 to 28 of saveTimeRecord: the day record read, with the seconds
\* added to totalTime of the hostname and to its pages[url]
AddTime(read, d, url, seconds) ==
  LET total == IF d \in DOMAIN read.totalTime THEN read.totalTime[d] ELSE 0
      pages == IF d \in DOMAIN read.pages THEN read.pages[d] ELSE <<>>
      page  == IF url \in DOMAIN pages THEN pages[url] ELSE 0
  IN  [ totalTime |-> Put(read.totalTime, d, total + seconds),
        pages     |-> Put(read.pages, d, Put(pages, url, page + seconds)) ]

\* data[today] || {}
DayRecord(day) ==
  [ totalTime |-> IF day \in DOMAIN timeData THEN timeData[day] ELSE <<>>,
    pages     |-> IF day \in DOMAIN timePages THEN timePages[day] ELSE <<>> ]

\* saveTimeRecord has returned and stopTracking goes on: it calls
\* checkTimeLimits(new URL(urlToSave).hostname), which runs up to its first
\* await
AfterSave(k) ==
  /\ stopPc' = [stopPc EXCEPT ![k] = "check"]
  /\ CheckEntered(k, Get(Hostname(urlToSave[k])))
  /\ UNCHANGED << trackerFrame, clock, ticks, sessionCalls, activeTabInfo,
                  idleState, idleListener, stopLocals, saveLog, lastCall >>

\* chrome.storage.local.get(today) resolves.  A hostname that names an
\* inherited property of the day record and has no entry of its own gives
\* the function Object as domainData, whose pages are undefined: line 27
\* throws, the catch logs, saveTimeRecord returns.  Otherwise the call is
\* suspended at chrome.storage.local.set with the record it has built.
SaveGetResolves(k) ==
  /\ stopPc[k] = "get"
  /\ LET read == DayRecord(today[k])
         d == Get(Hostname(urlToSave[k]))
     IN  IF d \notin DOMAIN read.totalTime /\ d \in InheritedKeys
         THEN AfterSave(k) /\ UNCHANGED << timeData, timePages, saved >>
         ELSE /\ dayData' = [dayData EXCEPT ![k] =
                   Some(AddTime(read, d, urlToSave[k], timeSpentInSeconds[k]))]
              /\ stopPc' = [stopPc EXCEPT ![k] = "set"]
              /\ UNCHANGED << trackerFrame, clock, ticks, sessionCalls,
                              checkState, timeData, timePages, activeTabInfo,
                              idleState, idleListener, stopThen, startTime,
                              urlToSave, timeSpentInSeconds, today, saveLog, saved,
                              lastCall >>

\* chrome.storage.local.get(today) rejects: the catch logs, saveTimeRecord
\* returns
SaveGetFails(k) ==
  /\ stopPc[k] = "get"
  /\ AfterSave(k)
  /\ UNCHANGED << timeData, timePages, saved >>

\* chrome.storage.local.set({[today]: dayData}) is applied: the day record
\* is replaced by the one the call has built; saveTimeRecord logs "Saved"
\* and returns
SaveSetResolves(k) ==
  /\ stopPc[k] = "set"
  /\ timeData' = Put(timeData, today[k], Get(dayData[k]).totalTime)
  /\ timePages' = Put(timePages, today[k], Get(dayData[k]).pages)
  /\ saved' = saved \cup {k}
  /\ AfterSave(k)

\* chrome.storage.local.set rejects: the catch logs, saveTimeRecord returns
SaveSetFails(k) ==
  /\ stopPc[k] = "set"
  /\ AfterSave(k)
  /\ UNCHANGED << timeData, timePages, saved >>

\* checkTimeLimits has returned, or has raised and the catch has logged:
\* stopTracking resets activeTabInfo and returns
StopResumes(k) ==
  /\ stopPc[k] = "check"
  /\ checkPc[k] \in {"returned", "raised"}
  /\ stopPc' = [stopPc EXCEPT ![k] = "returned"]
  /\ Then(NoTab, stopThen[k])
  /\ UNCHANGED << trackerFrame, clock, ticks, timeData, timePages, checkState,
                  idleState, idleListener, stopLocals, saveLog, saved, lastCall >>

\* how far the clock moves between two steps: just below and at the time
\* that rounds to 2 seconds
TrackerClockSteps == {1499, 1500}

\* how often the clock moves in a run of the time tracker
MaxElapses == 1

\* time passes while a timer runs or a stopTracking call is under way
Elapse(d) ==
  /\ ticks < MaxElapses
  /\ TimerRunning \/ StopsInFlight # {}
  /\ clock' = clock + d
  /\ ticks' = ticks + 1
  /\ UNCHANGED << sessionSide, blocker, tracker >>

\* the limits stored for the tracked pages: one minute for a.com
TrackerLimits == {Some(HostA :> 1)}

\* the day records stored before: 59 seconds on the page of TabA
TrackerTimes ==
  { [totalTime |-> 0 :> (HostA :> 59), pages |-> 0 :> (HostA :> (UrlAx :> 59))] }

\* The service worker has just started, or it has tracked TabA since
\* InitialClock and that visit is the stored session.
InitTracking ==
  /\ InitSessionManager
  /\ ~hasLanguageModel
  /\ InitScorer
  /\ withOffscreen = TRUE
  /\ settings \in TrackerLimits
  /\ \E stored \in TrackerTimes :
       timeData = stored.totalTime /\ timePages = stored.pages
  /\ notified = <<>>
  /\ offscreenDocument = FALSE
  /\ checkPc = [k \in Checks |-> "idle"]
  /\ checkDomain = [k \in Checks |-> <<>>]
  /\ timeLimits = [k \in Checks |-> Nothing]
  /\ limitInMinutes = [k \in Checks |-> Undefined]
  /\ totalTimeTodayInSeconds = [k \in Checks |-> 0]
  /\ readDay = [k \in Checks |-> -1]
  /\ notifiedAt = [k \in Checks |-> -1]
  /\ soundPc = [k \in Checks |-> "idle"]
  /\ timeReads = <<>>
  /\ alerts = <<>>
  /\ activeTabInfo = IF IsSome(currentSession) THEN Timing(TabA, InitialClock)
                     ELSE NoTab
  /\ idleState = "active"
  /\ idleListener = FALSE
  /\ stopPc = [k \in Stops |-> "idle"]
  /\ stopThen = [k \in Stops |-> Nothing]
  /\ startTime = [k \in Stops |-> -1]
  /\ urlToSave = [k \in Stops |-> <<>>]
  /\ timeSpentInSeconds = [k \in Stops |-> 0]
  /\ today = [k \in Stops |-> -1]
  /\ dayData = [k \in Stops |-> Nothing]
  /\ saveLog = <<>>
  /\ saved = {}
  /\ lastCall = IF IsSome(currentSession) THEN Some(TabA) ELSE Nothing

\* the events of the browser and the resolutions of the awaits of
\* stopTracking, saveTimeRecord and checkTimeLimits
NextTracking ==
  \/ Initialize
  \/ \E s \in {"idle", "locked"} : BecomesIdle(s)
  \/ \E tab \in {Nothing} \cup {Some(t) : t \in TrackedTabs} : BecomesActive(tab)
  \/ \E k \in Stops, tab \in TrackedTabs : OnActivated(k, tab)
  \/ \E k \in Stops, tab \in TrackedTabs : OnUpdated(k, tab)
  \/ \E k \in Stops, tab \in TrackedTabs : OnFocusChanged(k, tab)
  \/ \E k \in Stops : SaveGetResolves(k)
  \/ \E k \in Stops : SaveGetFails(k)
  \/ \E k \in Stops : SaveSetResolves(k)
  \/ \E k \in Stops : SaveSetFails(k)
  \/ \E k \in Stops : StopResumes(k)
  \/ \E k \in Checks : SettingsResolve(k)
  \/ \E k \in Checks : SettingsFail(k)
  \/ \E k \in Checks : DomainDataResolves(k)
  \/ \E k \in Checks : DomainDataFails(k)
  \/ \E k \in Checks : NotifiedResolves(k)
  \/ \E k \in Checks : NotifiedFails(k)
  \/ \E k \in Checks : SetNotifiedResolves(k)
  \/ \E k \in Checks : SetNotifiedFails(k)
  \/ \E d \in TrackerClockSteps : Elapse(d)

\* The time tracker with the calls it makes, interleaved at their awaits.
\* The calls of addPageVisitToSession and of playAlertSound, which nothing
\* of the tracker awaits, stay suspended at their first await: their steps
\* assign none of the variables of the tracker or of the time records.
SpecTracking == InitTracking /\ [][NextTracking]_vars

\* the 'notified_<domain>' timestamps stored before: one for a.com
StoredStamps == HostA :> InitialClock

\* addPageVisitToSession is called while the other records of the extension
\* are stored: a limit in the settings, a day record with its pages and an
\* alert timestamp
InitStores ==
  /\ InitSessionManager
  /\ InitScorer
  /\ withOffscreen = TRUE
  /\ settings \in TrackerLimits
  /\ \E stored \in TrackerTimes :
       timeData = stored.totalTime /\ timePages = stored.pages
  /\ notified = StoredStamps
  /\ offscreenDocument = FALSE
  /\ checkPc = [k \in Checks |-> "idle"]
  /\ checkDomain = [k \in Checks |-> <<>>]
  /\ timeLimits = [k \in Checks |-> Nothing]
  /\ limitInMinutes = [k \in Checks |-> Undefined]
  /\ totalTimeTodayInSeconds = [k \in Checks |-> 0]
  /\ readDay = [k \in Checks |-> -1]
  /\ notifiedAt = [k \in Checks |-> -1]
  /\ soundPc = [k \in Checks |-> "idle"]
  /\ timeReads = <<>>
  /\ alerts = <<>>
  /\ activeTabInfo = NoTab
  /\ idleState = "active"
  /\ idleListener = FALSE
  /\ stopPc = [k \in Stops |-> "idle"]
  /\ stopThen = [k \in Stops |-> Nothing]
  /\ startTime = [k \in Stops |-> -1]
  /\ urlToSave = [k \in Stops |-> <<>>]
  /\ timeSpentInSeconds = [k \in Stops |-> 0]
  /\ today = [k \in Stops |-> -1]
  /\ dayData = [k \in Stops |-> Nothing]
  /\ saveLog = <<>>
  /\ saved = {}
  /\ lastCall = Nothing

\* the calls of addPageVisitToSession beside the stored records
SpecStores == InitStores /\ [][Next]_vars

\* ------------------------------------------------------------------- claims
\* the hostname of the URL of an input
ExpectedHostname(url) == IF url \in {UrlAx, UrlAy} THEN HostA ELSE HostB

ThirtyMinutes == 30 * 60 * 1000

\* this step applies the write of call c to the store
Writes(c) == pc[c] = "set" /\ pc'[c] = "returned"

\* no write was applied between the read and the write of call c
NotInterleaved(c) == readAt[c] = nWrites

\* the gap call c saw between the loaded session and now
GapOf(c) == nowAt[c] - Get(data[c]).lastActivity

\* the session persisted is brand-new, made at now from the visit of call c
BrandNew(s, c) ==
  /\ s.id = "session-" \o ToString(nowAt[c])
  /\ s.startTime = nowAt[c]
  /\ s.lastActivity = nowAt[c]
  /\ s.pages = <<Get(pageData[c])>>
  /\ s.domains = <<ExpectedHostname(Get(Get(pageData[c]).url))>>

\* C1: a call that is not interleaved and loaded a session whose
\* lastActivity is more than 30 minutes before now persists a brand-new
\* session: id "session-" + now, startTime = lastActivity = now, the new
\* visit as the only page and its hostname as the only domain.
C1_ExpiredSessionReplaced ==
  [][\A c \in Calls :
       (Writes(c) /\ NotInterleaved(c) /\ IsSome(data[c])
          /\ GapOf(c) > ThirtyMinutes)
       => (IsSome(currentSession') /\ BrandNew(Get(currentSession'), c))]_vars

\* a call found the initial session expired and its new session is stored
C1_Witness ==
  /\ writeReads = <<0, 1>>
  /\ IsSome(currentSession)
  /\ Len(Get(currentSession).pages) = 1
  /\ Get(currentSession).startTime - InitialSession.lastActivity > ThirtyMinutes
  /\ InitialSession.id \in superseded

\* C2: a call that is not interleaved and loaded a session whose
\* lastActivity is at most 30 minutes before now (exactly 30 included)
\* persists the same session: id and startTime unchanged, the visit appended
\* to pages, lastActivity = now, and the hostname appended to domains if and
\* only if it was not there.
C2_LiveSessionReused ==
  [][\A c \in Calls :
       (Writes(c) /\ NotInterleaved(c) /\ IsSome(data[c])
          /\ GapOf(c) <= ThirtyMinutes)
       => LET old  == Get(data[c])
              new  == Get(currentSession')
              host == ExpectedHostname(Get(Get(pageData[c]).url))
          IN  /\ IsSome(currentSession')
              /\ new.id = old.id
              /\ new.startTime = old.startTime
              /\ new.pages = Append(old.pages, Get(pageData[c]))
              /\ Len(new.pages) = Len(old.pages) + 1
              /\ new.lastActivity = nowAt[c]
              /\ new.domains = IF Includes(old.domains, host) THEN old.domains
                               ELSE Append(old.domains, host)]_vars

\* a visit exactly 30 minutes after the initial session's last activity was
\* added to that session
C2_Witness ==
  /\ writeReads = <<0, 1>>
  /\ IsSome(currentSession)
  /\ Get(currentSession).id = InitialSession.id
  /\ Len(Get(currentSession).pages) = 2
  /\ Get(currentSession).lastActivity - InitialSession.lastActivity = ThirtyMinutes

\* C3: a call that loaded no session and whose visit has no aiTopics
\* persists a new session with id "session-" + now, startTime = lastActivity
\* = now, exactly one page, domains = [hostname], empty allTopics and
\* primaryTopic "Unknown".
C3_FirstVisitCreatesSession ==
  [][\A c \in Calls :
       (Writes(c) /\ NotInterleaved(c) /\ ~IsSome(data[c])
          /\ ~IsSome(Get(pageData[c]).aiTopics))
       => /\ IsSome(currentSession')
          /\ BrandNew(Get(currentSession'), c)
          /\ Len(Get(currentSession').pages) = 1
          /\ Get(currentSession').allTopics = <<>>
          /\ Get(currentSession').primaryTopic
               = <<"U","n","k","n","o","w","n">>]_vars

\* the first call found the store empty, some time after the worker
\* started, and its session for a visit without aiTopics is stored
C3_Witness ==
  /\ writeReads = <<0>>
  /\ pc[1] = "returned"
  /\ IsSome(currentSession)
  /\ Get(currentSession).startTime > InitialClock
  /\ ~IsSome(Get(currentSession).pages[1].aiTopics)
  /\ Get(currentSession).primaryTopic = Unknown

\* the arguments the claim names: no pageData, a missing url, an empty url
NoUsableUrl(pd) ==
  \/ pd = Nothing
  \/ Get(pd).url = Nothing
  \/ Get(pd).url = Some(<<>>)

\* C4: a call with no pageData or with a missing or empty url ends at once:
\* it does not suspend at a storage read, no write is applied, the stored
\* session is unchanged, and it ends by a plain return.
C4_RejectedCallIsNoOp ==
  [][\A c \in Calls, pd \in PageInputs :
       (Call(c, pd) /\ NoUsableUrl(pd))
       => /\ pc'[c] = "rejected"
          /\ currentSession' = currentSession
          /\ writeReads' = writeReads
          /\ locals' = locals]_vars

\* a call was rejected while the initial session is stored untouched
C4_Witness ==
  /\ \E c \in Calls : pc[c] = "rejected"
  /\ currentSession = Some(InitialSession)
  /\ writeReads = <<0>>

\* C5: when two calls load the same persisted session before either writes,
\* the write applied second replaces the record with the second call's own
\* session, whose pages are the loaded pages (or none, if it found the
\* session expired) plus its own visit only: the visit the first call
\* appended is not in it.
C5_SecondWriteWins ==
  [][\A c \in Calls :
       (Writes(c) /\ IsSome(data[c]) /\ nWrites = readAt[c] + 1
          /\ writeReads[nWrites] = readAt[c])
       => /\ currentSession' = session[c]
          /\ Get(currentSession').pages
               \in { Append(Get(data[c]).pages, Get(pageData[c])),
                     <<Get(pageData[c])>> }]_vars

\* two calls loaded the initial session, both wrote, and the stored session
\* has gained one page, not two
C5_Witness ==
  /\ writeReads = <<0, 1, 1>>
  /\ IsSome(currentSession)
  /\ Get(currentSession).id = InitialSession.id
  /\ Len(Get(currentSession).pages) = Len(InitialSession.pages) + 1

\* C6: a superseded session is terminal: the stored session never carries
\* the id of a session that was replaced by a new one.
C6_SupersededIsTerminal ==
  IsSome(currentSession) => Get(currentSession).id \notin superseded

IsPrefix(a, b) == Len(a) <= Len(b) /\ SubSeq(b, 1, Len(a)) = a

\* C7: pages are append-only: between two successive stored values with the
\* same session id, the earlier pages are a prefix of the later pages.
C7_PagesAppendOnly ==
  [][(IsSome(currentSession) /\ IsSome(currentSession')
        /\ Get(currentSession').id = Get(currentSession).id)
     => IsPrefix(Get(currentSession).pages, Get(currentSession').pages)]_vars

\* C8: in the stored session, domains has no duplicates and its elements are
\* exactly the hostnames of the URLs of its pages.
C8_DomainsAreHostnames ==
  IsSome(currentSession) =>
    LET s == Get(currentSession)
    IN  /\ \A i, j \in 1..Len(s.domains) : s.domains[i] = s.domains[j] => i = j
        /\ {s.domains[i] : i \in 1..Len(s.domains)}
             = {ExpectedHostname(Get(s.pages[i].url)) : i \in 1..Len(s.pages)}

\* a stored session of three pages on two hosts, one host visited twice
C8_Witness ==
  /\ IsSome(currentSession)
  /\ Len(Get(currentSession).pages) = 3
  /\ Len(Get(currentSession).domains) = 2
  /\ Get(currentSession).pages[3] = PageA2

\* C9: in the stored session, lastActivity >= startTime.
C9_LastActivityNotBeforeStart ==
  IsSome(currentSession) =>
    Get(currentSession).lastActivity >= Get(currentSession).startTime

\* call c holds a session it created itself (it loaded none, or an expired one)
CreatedSession(c) ==
  /\ pc[c] \in {"availability", "create", "prompt", "set"}
  /\ (~IsSome(data[c]) \/ GapOf(c) > ThirtyMinutes)

\* C10: two sessions created by different calls never have the same id.
C10_SessionIdsUnique ==
  \A c, d \in Calls :
    (c # d /\ CreatedSession(c) /\ CreatedSession(d))
    => Get(session[c]).id # Get(session[d]).id

\* the pages of the stored session that are visits of the tab url
VisitsOf(tab) ==
  IF IsSome(currentSession)
  THEN {i \in 1..Len(Get(currentSession).pages) :
          Get(currentSession).pages[i].url = Some(tab.url)}
  ELSE {}

\* C11: once the call of trackTab and the call for the PAGE_DATA message of
\* one page load have both written and returned, the pages of the stored
\* session hold exactly one visit of that page.
C11_OneVisitPerPageLoad ==
  (pc[TrackTabCall] = "returned" /\ pc[PageDataCall] = "returned")
  => Cardinality(VisitsOf(TabB)) = 1

\* the white-space separated tokens of all topic sentences of all pages, in
\* page, sentence and token order
RECURSIVE TokensOfSentences(_)
TokensOfSentences(sentences) ==
  IF sentences = <<>> THEN <<>>
  ELSE SplitWhiteSpace(Head(sentences)) \o TokensOfSentences(Tail(sentences))
RECURSIVE TokensOfPages(_)
TokensOfPages(pages) ==
  IF pages = <<>> THEN <<>>
  ELSE (IF IsSome(Head(pages).aiTopics)
        THEN TokensOfSentences(Get(Head(pages).aiTopics)) ELSE <<>>)
       \o TokensOfPages(Tail(pages))

\* the surviving tokens of the pages, cleaned, in order of occurrence
SurvivorsOf(pages) ==
  LET tokens == TokensOfPages(pages)
      cleaned == [i \in 1..Len(tokens) |-> CleanKeyword(tokens[i])]
  IN  SelectSeq(cleaned, KeepKeyword)

\* how many surviving tokens of the pages are keyword k
Occurrences(pages, k) ==
  LET sv == SurvivorsOf(pages)
  IN  Cardinality({i \in 1..Len(sv) : sv[i] = k})

\* C12: allTopics of the stored session is the keyword-frequency mapping of
\* the aiTopics of its pages: its keys are distinct and are exactly the
\* surviving tokens of the pages, and each frequency is the number of
\* occurrences of its key, an integer >= 1.
C12_AllTopicsRecomputed ==
  IsSome(currentSession) =>
    LET s  == Get(currentSession)
        sv == SurvivorsOf(s.pages)
    IN  /\ \A i, j \in 1..Len(s.allTopics) :
             s.allTopics[i].k = s.allTopics[j].k => i = j
        /\ {s.allTopics[i].k : i \in 1..Len(s.allTopics)}
             = {sv[i] : i \in 1..Len(sv)}
        /\ \A i \in 1..Len(s.allTopics) :
             /\ "n" \in DOMAIN s.allTopics[i]
             /\ s.allTopics[i].n = Occurrences(s.pages, s.allTopics[i].k)
             /\ s.allTopics[i].n \in Nat
             /\ s.allTopics[i].n >= 1

\* the keyword frequencies of the topic sentences of the page payloads,
\* worked out by hand from the rules: punctuation removed, lower-cased,
\* kept when longer than 3 characters and not a stop word
ExpectedFrequencies(topics) ==
  CASE topics = <<>> -> {}
    [] topics = <<SentenceSingle>> ->
    { [k |-> <<"e","n","e","r","g","y">>, n |-> 1] }
    [] topics = <<SentenceConstructor>> ->
    { [k |-> <<"c","o","n","s","t","r","u","c","t","o","r">>, n |-> 1] }
    [] topics = <<SentenceEnergy>> ->
    { [k |-> <<"e","n","e","r","g","y">>, n |-> 1],
      [k |-> <<"2","0","2","4">>, n |-> 1] }
    [] topics = <<SentencePolicy>> ->
    {
      [k |-> <<"t","h","i","s">>, n |-> 1],
      [k |-> <<"a","r","t","i","c","l","e">>, n |-> 1],
      [k |-> <<"d","i","s","c","u","s","s","e","s">>, n |-> 1],
      [k |-> <<"r","e","n","e","w","a","b","l","e">>, n |-> 1],
      [k |-> <<"e","n","e","r","g","y">>, n |-> 1],
      [k |-> <<"p","o","l","i","c","y">>, n |-> 1] }
    [] topics = <<SentencePolicy, SentenceMixed>> ->
    {
      [k |-> <<"t","h","i","s">>, n |-> 1],
      [k |-> <<"a","r","t","i","c","l","e">>, n |-> 1],
      [k |-> <<"d","i","s","c","u","s","s","e","s">>, n |-> 1],
      [k |-> <<"r","e","n","e","w","a","b","l","e">>, n |-> 1],
      [k |-> <<"e","n","e","r","g","y">>, n |-> 1],
      [k |-> <<"p","o","l","i","c","y">>, n |-> 2],
      [k |-> <<"t","h","e","m","a","t">>, n |-> 1],
      [k |-> <<"w","h","a","t","?">>, n |-> 1] }

\* C13: the stored allTopics of a session whose topic sentences come from one
\* page payload is the mapping the extraction rules give for those sentences;
\* for "This article discusses Renewable Energy Policy" it is exactly this,
\* article, discusses, renewable, energy, policy, each with count 1.
C13_KeywordExtraction ==
  IsSome(currentSession) =>
    LET s == Get(currentSession)
    IN  \A i \in 1..Len(s.pages) :
          IsSome(s.pages[i].aiTopics) =>
            {s.allTopics[j] : j \in 1..Len(s.allTopics)}
              = ExpectedFrequencies(Get(s.pages[i].aiTopics))

\* the keyword of the pages with the highest frequency, the first encountered
\* in page, sentence and token order among those with that frequency
FirstMostFrequent(pages) ==
  LET sv   == SurvivorsOf(pages)
      best == CHOOSE i \in 1..Len(sv) :
                /\ \A j \in 1..Len(sv) :
                     Occurrences(pages, sv[j]) <= Occurrences(pages, sv[i])
                /\ \A j \in 1..(i - 1) :
                     Occurrences(pages, sv[j]) < Occurrences(pages, sv[i])
  IN  sv[best]

\* the primary topics a successful synthesis sets
SynthesizedTopics == {SynthesizedTopic(reply) : reply \in Replies}

\* C14: in a call past the topic analysis whose pages have at least one
\* keyword, primaryTopic, unless a synthesis succeeded and replaced it, is
\* the keyword with the highest frequency, the first encountered among
\* those with equal highest frequency; also while a synthesis is pending.
C14_FallbackIsFirstMostFrequent ==
  \A c \in Calls :
    (pc[c] \in {"availability", "create", "prompt", "set"}
       /\ SurvivorsOf(Get(session[c]).pages) # <<>>
       /\ Get(session[c]).primaryTopic \notin SynthesizedTopics)
    => Get(session[c]).primaryTopic = FirstMostFrequent(Get(session[c]).pages)

\* the replies with the characters # * _ " removed and the surrounding white
\* space trimmed, written out
CleanedReply(reply) ==
  CASE reply = ReplyTitle -> <<"S","o","l","a","r"," ","P","o","w","e","r">>
    [] reply = ReplyHeading ->
         <<"D","e","e","p","S","e","a"," ","M","i","n","i","n","g">>

\* the keywords of the session, as a set
KeywordsOf(s) == {s.allTopics[i].k : i \in 1..Len(s.allTopics)}

\* the primary topic a session has without synthesis: one of its keywords,
\* or what the loaded session had, or that of a new session
IsFallbackTopic(s, loaded) ==
  IF KeywordsOf(s) # {} THEN s.primaryTopic \in KeywordsOf(s)
  ELSE s.primaryTopic \in
         {<<"U","n","k","n","o","w","n">>}
           \cup {Get(loaded).primaryTopic : x \in {1} \cap {Len(loaded)}}

\* C15: a call goes on to the availability check only with at least 2
\* keywords and a language model; it goes on to create and prompt only when
\* availability reported 'available' or 'readily'; the prompt names between
\* 2 and 5 keywords; when the prompt resolves primaryTopic becomes the cleaned
\* reply.  A call that goes to the write without a resolved prompt made no
\* request and has the fallback topic.
C15_SynthesisOnlyWhenReady ==
  [][\A c \in Calls :
       /\ (pc[c] = "get" /\ pc'[c] = "availability")
            => /\ hasLanguageModel
               /\ Cardinality(KeywordsOf(Get(session'[c]))) >= 2
               /\ Len(topKeywords'[c]) \in 2..5
               /\ IsFallbackTopic(Get(session'[c]), data'[c])
       /\ (pc[c] = "get" /\ pc'[c] = "set")
            => /\ ~hasLanguageModel
                    \/ Cardinality(KeywordsOf(Get(session'[c]))) < 2
               /\ IsFallbackTopic(Get(session'[c]), data'[c])
       /\ \A a \in Availabilities :
            AvailabilityResolves(c, a)
            => IF a \in {"available", "readily"}
               THEN pc'[c] = "create" /\ session'[c] = session[c]
               ELSE /\ pc'[c] = "set"
                    /\ Get(session'[c]).primaryTopic
                         = Get(session[c]).primaryTopic
       /\ pc'[c] \in {"create", "prompt"}
            => hasLanguageModel /\ Len(topKeywords'[c]) \in 2..5
       /\ \A r \in PageLoadReplies :
            PromptResolves(c, r)
            => Get(session'[c]).primaryTopic = CleanedReply(r)]_vars

\* a prompt that named 5 of the 8 keywords of the session was answered and
\* the session is stored with the cleaned reply as its primary topic
C15_Witness ==
  /\ IsSome(currentSession)
  /\ Len(Get(currentSession).allTopics) = 8
  /\ Get(currentSession).primaryTopic
       = <<"D","e","e","p","S","e","a"," ","M","i","n","i","n","g">>

\* C16: when availability(), create() or prompt() rejects, the call keeps
\* its fallback primaryTopic (a keyword of the session), keeps the pages with
\* the new visit last, stores the score of that session onto it, and goes on
\* to the storage write instead of ending in the outer catch.
C16_SynthesisFailureRecovered ==
  [][\A c \in Calls :
       SynthesisFails(c)
       => LET before == Get(session[c])
              after  == Get(session'[c])
          IN  /\ pc'[c] = "set"
              /\ UpdateFailed \in console' => UpdateFailed \in console
              /\ after.primaryTopic = before.primaryTopic
              /\ after.primaryTopic \in KeywordsOf(before)
              /\ after.pages = before.pages
              /\ after.pages[Len(after.pages)] = Get(pageData[c])
              /\ after.allTopics = before.allTopics
              /\ after.rabbitholeScore = scoreSession(before).rabbitholeScore
              /\ after.rabbitholeSeverity
                   = scoreSession(before).rabbitholeSeverity]_vars

\* the first call logged a failed synthesis and nothing else, and its session
\* is stored with a keyword as primary topic
C16_Witness ==
  /\ pc[1] = "returned"
  /\ pc[2] = "idle"
  /\ console = {SynthesisFailed}
  /\ IsSome(currentSession)
  /\ Get(currentSession).primaryTopic \in KeywordsOf(Get(currentSession))
  /\ Get(currentSession).lastActivity = clock

\* C17: a call suspended at availability(), create() or prompt() eventually
\* goes on to the storage write or ends, whether or not the promise of the
\* language model ever settles.
C17_SynthesisNeverBlocks ==
  (pc[1] \in {"availability", "create", "prompt"})
    ~> (pc[1] \in {"set", "returned", "caught"})

\* C18: while a call is suspended at availability(), create() or prompt(),
\* another call is not held back: the next call can be made, a call waiting
\* for its storage read can have it settled, and a call waiting for its
\* storage write can have the write applied and return.
C18_LaterCallNotBlocked ==
  \A b, c \in Calls :
    (b # c /\ pc[b] \in {"availability", "create", "prompt"})
    => /\ (pc[c] = "idle" /\ Cardinality(InFlight) < MaxInFlight
              /\ \A a \in Calls : a < c => pc[a] # "idle")
            => ENABLED Call(c, Some(PageB))
       /\ pc[c] = "get" => ENABLED (GetFails(c) \/ GetResolves(c))
       /\ pc[c] = "set" => ENABLED SetResolves(c)

\* the first call is still waiting for the reply of the model, and the
\* second call, made after it, has loaded, written and returned: the stored
\* session is the one the second call wrote
C18_Witness ==
  /\ pc[1] = "prompt"
  /\ pc[2] = "returned"
  /\ console = {}
  /\ Len(writeReads) = 1
  /\ IsSome(currentSession)
  /\ "rabbitholeScore" \in DOMAIN Get(currentSession)
  /\ Len(Get(currentSession).pages) = 1

\* the ways a call returns to its caller: by the return of the guard, by the
\* outer catch after logging, by the end of the function after the write
ReturnedNormally == {"rejected", "caught", "returned"}

\* call c holds a visit whose url does not parse
UrlDoesNotParse(c) ==
  IsSome(pageData[c]) /\ Get(pageData[c]).url = Some(UrlBad)

\* C19: a call never raises to its caller: whatever the argument, it is
\* rejected by a plain return or suspends at the storage read; a rejected
\* storage read or write and a url that does not parse end it in the outer
\* catch, logged; a rejected synthesis is caught and the call goes on; and
\* every call that ends has returned normally.
C19_NeverRaises ==
  [][\A c \in Calls :
       /\ \A pd \in PageInputs :
            Call(c, pd) => pc'[c] \in {"rejected", "get"}
       /\ (GetFails(c) \/ SetFails(c))
            => pc'[c] = "caught" /\ UpdateFailed \in console'
       /\ (pc[c] = "get" /\ pc'[c] # "get" /\ UrlDoesNotParse(c))
            => pc'[c] = "caught" /\ UpdateFailed \in console'
       /\ SynthesisFails(c)
            => pc'[c] = "set" /\ SynthesisFailed \in console'
       /\ (pc'[c] # pc[c] /\ pc'[c] \notin {"get", "availability", "create",
                                              "prompt", "set"})
            => pc'[c] \in ReturnedNormally]_vars

\* one call was rejected by the guard and the other ended in the outer catch
C19_Witness ==
  /\ pc[1] = "rejected"
  /\ pc[2] = "caught"
  /\ console = {UpdateFailed}

\* C20: a call that ends because its url does not parse or because its
\* storage read or write is rejected changes nothing in the store: the
\* stored session is what it was, no write is applied, and the call, once
\* ended in the outer catch, takes no further step.
C20_NoPartialUpdate ==
  [][\A c \in Calls :
       /\ (GetFails(c) \/ SetFails(c)
             \/ (pc[c] = "get" /\ pc'[c] # "get" /\ UrlDoesNotParse(c)))
            => /\ currentSession' = currentSession
               /\ writeReads' = writeReads
               /\ pc'[c] = "caught"
       /\ pc[c] = "caught" => pc'[c] = "caught"]_vars

\* some time after the worker started a call ended in the outer catch, and
\* the store still holds the initial session, written once
C20_Witness ==
  /\ pc[1] = "caught"
  /\ pc[2] = "idle"
  /\ console = {UpdateFailed}
  /\ currentSession = Some(InitialSession)
  /\ writeReads = <<0>>
  /\ clock > InitialClock

\* ------------------------------------------------------- claims: the scorer
\* the sum of the four factors of the session in units of 1/120000 point,
\* the common denominator of its terms: 0.5 per minute, 1.5 per domain, 0.2
\* per page and topicFactor points
FormulaUnits(s, topicFactor) ==
  (s.lastActivity - s.startTime)
    + 180000 * Len(s.domains) + 24000 * Len(s.pages) + 120000 * topicFactor

\* the number of keys of allTopics, none when it is missing
KeyCount(s) == IF "allTopics" \in DOMAIN s THEN Len(s.allTopics) ELSE 0

\* hundredths is units rounded to 2 decimals: no hundredth is nearer
RoundedTo2(hundredths, units) == 1200 * hundredths - units \in -600..600

\* the session of the example: 2 domains, 3 pages, 20 minutes, 4 topics
IsExampleSession(s) ==
  /\ Len(s.domains) = 2
  /\ Len(s.pages) = 3
  /\ s.lastActivity - s.startTime = 20 * 60 * 1000
  /\ KeyCount(s) = 4

C22_SeverityMatchesScore ==
  \A i \in 1..Len(scoreLog) :
    LET score    == scoreLog[i].result.rabbitholeScore
        severity == scoreLog[i].result.rabbitholeSeverity
    IN  /\ severity = "Low" <=> score <= 1500
        /\ severity = "Medium" <=> (1500 < score /\ score <= 3000)
        /\ severity = "High" <=> score > 3000

\* the topic-diversity factor the claim gives for n unique keywords
DiversityFactor(n) == IF n >= 2 THEN 2 * n ELSE 0

\* the fields of s other than allTopics
ButTopics(s) == [f \in DOMAIN s \ {"allTopics"} |-> s[f]]

\* the sum of the factors of s lies halfway between two hundredths
IsHalfway(s) == FormulaUnits(s, 0) % 1200 = 600

NoTopics(s) == "allTopics" \notin DOMAIN s \/ s.allTopics = <<>>

\* the call returned an object with a score and a severity
Returned(result) ==
  DOMAIN result = {"rabbitholeScore", "rabbitholeSeverity"}

\* C24: a scoreSession call on a session whose allTopics is missing or
\* empty does not raise: it returns a score and a severity, the score being
\* the sum of the other three factors rounded to 2 decimals, and the same
\* result for a missing as for an empty allTopics.
C24_MissingTopicsScoreZero ==
  /\ \A i \in 1..Len(scoreLog) :
       NoTopics(scoreLog[i].session)
       => /\ Returned(scoreLog[i].result)
          /\ RoundedTo2(scoreLog[i].result.rabbitholeScore,
                        FormulaUnits(scoreLog[i].session, 0))
  /\ \A i, j \in 1..Len(scoreLog) :
       (NoTopics(scoreLog[i].session) /\ NoTopics(scoreLog[j].session)
          /\ ButTopics(scoreLog[i].session) = ButTopics(scoreLog[j].session))
       => scoreLog[i].result = scoreLog[j].result

\* a session without allTopics was scored, and then the same session with
\* an empty allTopics
C24_Witness ==
  /\ Len(scoreLog) = 2
  /\ "allTopics" \notin DOMAIN scoreLog[1].session
  /\ "allTopics" \in DOMAIN scoreLog[2].session
  /\ scoreLog[2].session.allTopics = <<>>
  /\ Returned(scoreLog[1].result)
  /\ scoreLog[1].result = scoreLog[2].result

\* the fields the claim names
ScoredFields == {"startTime", "lastActivity", "domains", "pages", "allTopics"}

\* s restricted to the fields the claim names
ScoredPart(s) == [f \in DOMAIN s \cap ScoredFields |-> s[f]]

\* C25: two scoreSession calls on sessions equal in startTime, lastActivity,
\* domains, pages and allTopics return the same score and severity, whatever
\* the id, the primaryTopic or a score stored earlier; and a call leaves the
\* session object as it was.
C25_ScoreDependsOnScoredFields ==
  /\ [](\A i, j \in 1..Len(scoreLog) :
          ScoredPart(scoreLog[i].session) = ScoredPart(scoreLog[j].session)
          => scoreLog[i].result = scoreLog[j].result)
  /\ [][Len(scoreLog') > Len(scoreLog) => scoreArg' = scoreArg]_vars

\* a session was scored, and then the same session as loaded from the store
\* with an earlier score on it
C25_Witness ==
  /\ Len(scoreLog) = 2
  /\ "rabbitholeScore" \notin DOMAIN scoreLog[1].session
  /\ "rabbitholeScore" \in DOMAIN scoreLog[2].session
  /\ ScoredPart(scoreLog[1].session) = ScoredPart(scoreLog[2].session)
  /\ scoreLog[1].result = scoreLog[2].result
  /\ scoreLog[2].result.rabbitholeScore # scoreLog[2].session.rabbitholeScore

\* ------------------------------------------------------------------------
\* claims: the persisted session

\* what the stored session carries as its score
StoredScore(s) ==
  [ rabbitholeScore    |-> s.rabbitholeScore,
    rabbitholeSeverity |-> s.rabbitholeSeverity ]

\* C26: every value of currentSession carries rabbitholeScore and
\* rabbitholeSeverity, and they are what scoreSession returns for the
\* startTime, lastActivity, domains, pages and allTopics stored with them.
C26_PersistedSessionScored ==
  IsSome(currentSession) =>
    LET s == Get(currentSession)
    IN  /\ {"rabbitholeScore", "rabbitholeSeverity"} \subseteq DOMAIN s
        /\ StoredScore(s) = scoreSession(ScoredPart(s))

\* a call that loaded a scored session has written it back with one more
\* page and another score
C26_Witness ==
  /\ nWrites >= 1
  /\ IsSome(currentSession)
  /\ Get(currentSession).id = InitialSession.id
  /\ Len(Get(currentSession).pages) >= 2
  /\ Get(currentSession).rabbitholeScore # InitialSession.rabbitholeScore

\* C27: every value of currentSession has at least one page.
C27_PersistedSessionHasPage ==
  IsSome(currentSession) => Len(Get(currentSession).pages) >= 1

\* a call that created its session has written it, with its one visit
C27_Witness ==
  /\ nWrites >= 1
  /\ IsSome(currentSession)
  /\ Get(currentSession).id # InitialSession.id
  /\ Len(Get(currentSession).pages) = 1

\* ------------------------------------------------------------------------
\* claims: the time limits

\* a limit is stored under key
Configured(key) == IsSome(settings) /\ key \in DOMAIN Get(settings)

\* the hostname without a leading "www."
Bare(d) == IF d = WwwYoutubeCom THEN YoutubeCom ELSE d

\* call k has the stored limits: its read of 'settings' did not fail
GotSettings(k) ==
  IsSome(timeLimits[k]) /\ Get(timeLimits[k]) = TimeLimitsOf(settings)

\* call k read no time data, created no notification, started no sound and
\* stored no timestamp
DidNothing(k) ==
  /\ \A i \in 1..Len(timeReads) : timeReads[i].call # k
  /\ \A i \in 1..Len(alerts) : alerts[i].call # k
  /\ soundPc[k] = "idle"
  /\ notifiedAt[k] = -1

\* C28: a checkTimeLimits call that has read the settings uses the limit
\* stored for its hostname when there is one, otherwise the one stored for
\* the hostname without a leading "www."; when neither is stored it returns
\* and has read no time data, alerted nobody and written nothing.
C28_LimitLookup ==
  \A k \in Checks :
    GotSettings(k) =>
      IF Configured(checkDomain[k])
      THEN limitInMinutes[k] = Num(Get(settings)[checkDomain[k]])
      ELSE IF Configured(Bare(checkDomain[k]))
      THEN limitInMinutes[k] = Num(Get(settings)[Bare(checkDomain[k])])
      ELSE checkPc[k] = "returned" /\ DidNothing(k)

\* C29: two notifications for one domain are at least ten minutes apart,
\* and a call whose notification was created and which has returned has
\* stored a timestamp for the domain.
C29_AlertsTenMinutesApart ==
  /\ \A i, j \in 1..Len(alerts) :
       i < j /\ alerts[i].domain = alerts[j].domain
         => alerts[j].at - alerts[i].at >= 10 * 60 * 1000
  /\ \A i \in 1..Len(alerts) :
       checkPc[alerts[i].call] = "returned"
         => alerts[i].domain \in DOMAIN notified

\* the total stored for a hostname on a day, 0 when nothing is stored
StoredTotal(day, d) ==
  IF day \in DOMAIN timeData /\ d \in DOMAIN timeData[day]
  THEN timeData[day][d]
  ELSE 0

\* C30: every notification created is for a total that is strictly greater
\* than limitInMinutes * 60 seconds, the total being the one stored for the
\* hostname on the day on which the call asked for it, and limitInMinutes a
\* stored limit; so a total equal to the limit, or no time stored for that
\* day, gives no notification.
C30_AlertOnlyAboveLimit ==
  \A i \in 1..Len(alerts) :
    LET a == alerts[i]
    IN  /\ a.total > a.limitInMinutes * 60
        /\ a.total = StoredTotal(a.day, a.domain)
        /\ a.total > 0
        /\ \E j \in 1..Len(timeReads) :
             timeReads[j] = [call |-> a.call, domain |-> a.domain, day |-> a.day]
        /\ \E key \in {a.domain, Bare(a.domain)} :
             Configured(key) /\ Get(settings)[key] = a.limitInMinutes

\* one call found a total one second above its limit and its notification
\* was created; another found a total equal to its limit and returned
\* without one
C30_Witness ==
  /\ \E i \in 1..Len(alerts) :
       alerts[i].total = 61 /\ alerts[i].limitInMinutes = 1
  /\ \E k \in Checks :
       /\ checkPc[k] = "returned"
       /\ limitInMinutes[k] = Num(1)
       /\ totalTimeTodayInSeconds[k] = 60
       /\ \E j \in 1..Len(timeReads) : timeReads[j].call = k
       /\ \A i \in 1..Len(alerts) : alerts[i].call # k

\* --------------------------------------------------- claims: the time tracker
\* the idle listener is registered and chrome.idle has reported idle or locked
Away == idleListener /\ idleState \in {"idle", "locked"}

\* C31: between the change of the idle state to 'idle' or 'locked' and its
\* change back to 'active', the listener of initialize() being registered,
\* no tab timer starts: activeTabInfo.startTime, once null, stays null
\* whatever tab, window or page-load events arrive.
C31_NoTimerStartsWhileIdle ==
  [][Away /\ Away' /\ ~TimerRunning => ~TimerRunning']_vars

\* C32: once every stopTracking and trackTab call has finished, the last of
\* them being a trackTab call for a valid web page, activeTabInfo refers to
\* the tab of that call: no stopTracking that started earlier has cleared or
\* replaced the timer the later trackTab set.
C32_LastTrackedTabTimed ==
  StopsInFlight = {} /\ IsSome(lastCall) /\ ValidTab(Get(lastCall))
    => /\ activeTabInfo.tabId = Some(Get(lastCall).id)
       /\ activeTabInfo.url = Some(Get(lastCall).url)
       /\ TimerRunning

\* C33: for one activeTabInfo.startTime at most one saveTimeRecord call is
\* made, also when stopTracking calls overlap: no two calls in the log of
\* saveTimeRecord calls are for the same timer.
C33_IntervalSavedOnce ==
  \A i, j \in 1..Len(saveLog) :
    saveLog[i].from = saveLog[j].from => i = j

\* this step is the idle listener calling stopTracking()
IdleStop == idleListener /\ idleState' # idleState /\ idleState' # "active"

\* the milliseconds the timer has run
Elapsed == clock - Get(activeTabInfo.startTime)

\* this step is call k of stopTracking returning
Returns(k) == stopPc[k] # "returned" /\ stopPc'[k] = "returned"

\* C34: a stopTracking() call made without a timer changes nothing; made
\* with a timer it calls saveTimeRecord only if the elapsed time, rounded to
\* seconds, is greater than 1 (1500 ms or more), with that number of
\* seconds, and otherwise resets activeTabInfo at once; and every call that
\* was suspended, its save or its limit check failed or not, returns with
\* activeTabInfo reset to {null, null, null}, after which only the then()
\* callback of its own trackTab sets it.
C34_StopTrackingResets ==
  [][ /\ IdleStop /\ ~TimerRunning
        => UNCHANGED << activeTabInfo, stopPc, stopLocals, saveLog, timeData,
                        timePages, checkState, sessionCalls >>
      /\ IdleStop /\ TimerRunning /\ Elapsed < 1500
        => /\ activeTabInfo' = NoTab
           /\ UNCHANGED << stopPc, stopLocals, saveLog, timeData, timePages >>
      /\ saveLog' # saveLog
        => /\ TimerRunning
           /\ Elapsed >= 1500
           /\ \E k \in Stops :
                /\ stopPc[k] = "idle" /\ stopPc'[k] = "get"
                /\ saveLog' = Append(saveLog,
                     [ call    |-> k,
                       url     |-> Get(activeTabInfo.url),
                       seconds |-> timeSpentInSeconds'[k],
                       from    |-> Get(activeTabInfo.startTime),
                       day     |-> today'[k] ])
                /\ 1000 * timeSpentInSeconds'[k] - Elapsed \in -499..500
                /\ timeSpentInSeconds'[k] > 1
           /\ UNCHANGED activeTabInfo
      /\ \A k \in Stops :
           Returns(k)
             => activeTabInfo' =
                  IF IsSome(stopThen[k]) /\ ValidTab(Get(stopThen[k]))
                  THEN Timing(Get(stopThen[k]), clock)
                  ELSE NoTab
    ]_vars

\* a stopTracking() call of the idle listener found a timer that had run
\* 1.5 s, its saveTimeRecord failed at the storage read, and it has
\* returned with activeTabInfo reset
C34_Witness ==
  \E k \in Stops :
    /\ stopPc[k] = "returned"
    /\ stopThen[k] = Nothing
    /\ timeSpentInSeconds[k] = 2
    /\ dayData[k] = Nothing
    /\ \E i \in 1..Len(saveLog) : saveLog[i].call = k
    /\ activeTabInfo = NoTab

\* the seconds stored for a hostname on a day before the service worker
\* started
StoredAtStart(day, d) == IF day = 0 /\ d = HostA THEN 59 ELSE 0

RECURSIVE SecondsSaved(_, _, _)
\* the sum of the seconds passed to the first n saveTimeRecord calls that
\* were for the hostname and the day and have logged "Saved"
SecondsSaved(n, day, d) ==
  IF n = 0
  THEN 0
  ELSE SecondsSaved(n - 1, day, d) +
       ( IF /\ saveLog[n].call \in saved
            /\ saveLog[n].day = day
            /\ Hostname(saveLog[n].url) = Some(d)
         THEN saveLog[n].seconds
         ELSE 0 )

\* C35: once the saveTimeRecord calls made have all completed, the stored
\* totalTime of every hostname for every day is what was stored at the start
\* plus the sum of the seconds passed to the calls for that day and hostname
\* that saved, also when the calls interleaved between their storage read
\* and write.
C35_NoSecondsLost ==
  StopsInFlight = {}
    => \A day \in {0, 1}, d \in {HostA, HostB} :
         StoredTotal(day, d) = StoredAtStart(day, d) + SecondsSaved(Len(saveLog), day, d)

RECURSIVE SumOf(_, _)
\* the sum of f over the keys in S
SumOf(f, S) ==
  IF S = {}
  THEN 0
  ELSE LET x == CHOOSE y \in S : TRUE
       IN  f[x] + SumOf(f, S \ {x})

\* C36: in every stored day record every hostname has a totalTime and a
\* pages mapping, and its totalTime is the sum of the seconds stored in its
\* pages mapping, after any sequence and interleaving of saveTimeRecord
\* calls.
C36_TotalIsSumOfPages ==
  /\ DOMAIN timePages = DOMAIN timeData
  /\ \A day \in DOMAIN timeData :
       /\ DOMAIN timePages[day] = DOMAIN timeData[day]
       /\ \A d \in DOMAIN timeData[day] :
            timeData[day][d] = SumOf(timePages[day][d], DOMAIN timePages[day][d])

\* two saveTimeRecord calls for the page of a.com have read the day record
\* one after the other and have written: it holds 2 seconds more than at
\* the start, in the total and on the page
C36_Witness ==
  /\ saved = {1, 2}
  /\ timeData = (0 :> (HostA :> 61))
  /\ timePages = (0 :> (HostA :> (UrlAx :> 61)))

\* C37: across successive writes to currentSession the stored lastActivity
\* never decreases, under any interleaving of addPageVisitToSession calls
\* with a clock that never goes back.
C37_LastActivityNeverDecreases ==
  [][ IsSome(currentSession) /\ IsSome(currentSession')
        => Get(currentSession').lastActivity >= Get(currentSession).lastActivity
    ]_vars

\* --------------------------------------------- claims: the stores side by side
\* this step ends call c without a write: the guard of the first line
\* rejected it, or the outer catch caught a failure
EndsWithoutWrite(c) == pc'[c] # pc[c] /\ pc'[c] \in {"rejected", "caught"}

\* C38: no step of addPageVisitToSession changes the date-keyed time
\* records, the settings or the 'notified_<domain>' timestamps; a step that
\* changes 'currentSession' is the write of one call and leaves exactly the
\* session object of that call as the record; and a step in which a call is
\* rejected or fails leaves 'currentSession' as it was.
C38_WritesOnlyCurrentSession ==
  [][ /\ UNCHANGED << settings, timeData, timePages, notified >>
      /\ currentSession' # currentSession
           => \E c \in Calls : Writes(c) /\ currentSession' = session[c]
      /\ \A c \in Calls : EndsWithoutWrite(c) => UNCHANGED currentSession
    ]_vars

\* beside the stored limit, day record and alert timestamp one call has
\* replaced the stored session by a new one and another has been rejected
\* or has failed
C38_Witness ==
  /\ notified = StoredStamps
  /\ timeData # <<>>
  /\ IsSome(settings)
  /\ IsSome(currentSession)
  /\ Get(currentSession).id # InitialSession.id
  /\ \E c \in Calls : pc[c] = "returned"
  /\ \E c \in Calls : pc[c] \in {"rejected", "caught"}

====
